---- MODULE Spec2Model ----
(***************************************************************************)
(* Model of the vendor onboarding bot: the session store and the four tool *)
(* operations (src/tools.py), the tool executor and the orchestration loop *)
(* VendorAgentRunner.process_query (src/agent.py).                         *)
(*                                                                         *)
(* Python dicts are functions whose DOMAIN is the set of keys present.     *)
(* Formatted strings are sequences of their literal and interpolated       *)
(* segments (emoji are written as (check), (clipboard), (hourglass)).      *)
(* A Python call is modelled by an operator that returns the    *)
(* new store, the returned value and the exception that left the call      *)
(* (NoExc when it returned normally).                                      *)
(***************************************************************************)
EXTENDS Integers, Sequences, FiniteSets, TLC

VARIABLES
    store,                  \* tools._onboarding_sessions
    company_rag,            \* tools._company_rag_instance
    last,                   \* the most recent direct call of a tool operation
    pc,                     \* position of the running process_query call
    self,                   \* the runner whose process_query call is running
    conversation_messages,  \* the caller's list handed to process_query
    messages_to_use,        \* the working history of the call
    response_message,       \* the first model reply
    final_message,          \* the follow-up model reply
    idx,                    \* invocations of the first reply handled so far
    requests,               \* model requests issued by the call
    executions,             \* execute_tool_call records of the call, in order
    ret,                    \* value returned by process_query
    raised,                 \* exception that left process_query
    store0,                 \* the store when the call was entered
    sink                    \* how the telemetry sink answers during the call

vars == <<store, company_rag, last, pc, self, conversation_messages, messages_to_use,
          response_message, final_message, idx, requests, executions, ret,
          raised, store0, sink>>

agentVars == <<pc, self, conversation_messages, messages_to_use,
               response_message, final_message, idx, requests, executions,
               ret, raised, store0, sink>>

\* ------------------------------------------------------------------ bounds
\* Largest number of tool invocations a model reply carries in the model.
MaxCalls == 2

\* ------------------------------------------------------------ value domains
None == "None"          \* Python None
NoExc == "NoExc"        \* the call returned normally

DefaultSessionId == "vendor-agent"

\* Session ids the tool operations are called with directly ("" is the empty
\* session id, the default of lookup_company_information).
SessionIds == {"s1", ""}
Names == {"Acme", "Beta"}
Countries == {"", "US"}
Certs == {"SOC2"}
Needs == {"PII"}

\* What one emission to the telemetry handle does.
TelOutcomes == {"ok", "raise"}
\* Outcomes of the first and the second emission attempted inside one call; the
\* second is attempted only after the first raised.
TelBehaviours == {<<"ok", "ok">>, <<"raise", "ok">>, <<"raise", "raise">>}
\* galileo_logger argument: None, or a handle with the behaviour it shows.
Loggers == {None, "handle"}
TelemetryFault == "telemetry sink failed"

\* What the environment of the retrieval client does during one call.
\*   docs:        the index returns matches
\*   empty:       the index returns zero matches
\*   query_fault: the index query raises
\*   embed_fault: the embedding request raises
\*   init_fault:  a credential of the backend clients is not configured
\*   get_fault:   the index name is not configured
RagOutcomes == {"docs", "empty", "query_fault", "embed_fault", "init_fault", "get_fault"}
RagFault == "index_name must be provided or PINECONE_INDEX_NAME environment variable must be set"
InitFault == "PINECONE_API_KEY environment variable is required"
EmbedFault == "embedding request failed"
QueryFault == "index query failed"
RagContext == "Acme Inc. legal entity record"
RiskContext == "Acme Inc. risk assessment: low"

\* ------------------------------------------------------------- dict helpers
EmptyDict == [k \in {} |-> None]

\* d[k] = v on a dict
DictSet(d, k, v) == [x \in (DOMAIN d) \cup {k} |-> IF x = k THEN v ELSE d[x]]

DictReplace(d, u) == u

\* d.update(u)
DictUpdate(d, u) ==
    [x \in (DOMAIN d) \cup (DOMAIN u) |-> IF x \in DOMAIN u THEN u[x] ELSE d[x]]

RECURSIVE Join(_, _)
\* sep.join(parts), as a sequence of segments
Join(parts, sep) ==
    IF Len(parts) = 0 THEN <<>>
    ELSE IF Len(parts) = 1 THEN <<parts[1]>>
    ELSE <<parts[1], sep>> \o Join(Tail(parts), sep)

\* ---------------------------------------------------------- session store
required_keys == <<"company_name", "compliance_certifications", "data_access_needs">>

RequiredKeySet == {required_keys[i] : i \in 1..Len(required_keys)}

CheckTwoKeysOnly(sessions, session_id) ==
    IF session_id \in DOMAIN sessions
    THEN IF {"company_name", "compliance_certifications"} \subseteq DOMAIN sessions[session_id]
         THEN DictSet(sessions, session_id,
                      DictSet(sessions[session_id], "application_complete", TRUE))
         ELSE sessions
    ELSE sessions

\* _check_and_mark_application_complete
CheckAndMarkApplicationComplete(sessions, session_id) ==
    IF session_id \in DOMAIN sessions
    THEN IF \A i \in 1..Len(required_keys) : required_keys[i] \in DOMAIN sessions[session_id]
         THEN DictSet(sessions, session_id,
                      DictSet(sessions[session_id], "application_complete", TRUE))
         ELSE sessions
    ELSE sessions

\* _log_to_galileo, n-th emission of the call: TRUE when the emission raises.
\* Without a handle nothing is emitted and nothing can fail.
LogToGalileoRaises(galileo_logger, tel, n) ==
    galileo_logger # None /\ tel[n] = "raise"

\* Number of tool spans the handle recorded when attempts 1..n were made.
SpansRecorded(galileo_logger, tel, n) ==
    IF galileo_logger = None THEN 0
    ELSE Cardinality({i \in 1..n : tel[i] = "ok"})

\* Result of a call: store afterwards, value returned (<<>> when the call
\* raised), exception raised, tool spans recorded.
Outcome(s, r, e, n) == [store |-> s, ret |-> r, exc |-> e, spans |-> n]

\* The try/except frame shared by the four operations, entered after the
\* body has computed `result` and changed the store to s: the success span is
\* emitted inside the try; a fault there is caught by the except clause, which
\* emits an error span outside any handler and returns the error text.
FinishWithSpan(s, result, errorPrefix, galileo_logger, tel) ==
    IF LogToGalileoRaises(galileo_logger, tel, 1)
    THEN IF LogToGalileoRaises(galileo_logger, tel, 2)
         THEN Outcome(s, <<>>, TelemetryFault, 0)
         ELSE Outcome(s, <<errorPrefix, TelemetryFault>>, NoExc,
                      SpansRecorded(galileo_logger, tel, 2))
    ELSE Outcome(s, result, NoExc, SpansRecorded(galileo_logger, tel, 1))

\* The except clause alone, reached by a fault `msg` of the body before any
\* span was emitted: the error span is the first emission of the call.
FailWithSpan(s, msg, errorPrefix, galileo_logger, tel) ==
    IF LogToGalileoRaises(galileo_logger, tel, 1)
    THEN Outcome(s, <<>>, TelemetryFault, 0)
    ELSE Outcome(s, <<errorPrefix, msg>>, NoExc,
                 SpansRecorded(galileo_logger, tel, 1))

\* ------------------------------------------------------- retrieval (search)
SearchQuery(company_name, country) ==
    IF country # ""
    THEN <<"company information for ", company_name, " incorporated in ", country>>
    ELSE <<"company information for ", company_name>>

\* ------------------------------------------------------- retrieval client
\* _company_rag_instance while it is None
NoInstance == [created |-> FALSE, initialized |-> FALSE]

\* RAGSystem.__init__ with an index name and a namespace
RAGSystem == [created |-> TRUE, initialized |-> FALSE]

\* the matches of a query that finds something, by descending score
Matches ==
    <<[score |-> "0.91", metadata |-> [text |-> RagContext, source |-> "registry"]],
      [score |-> "0.84", metadata |-> [text |-> RiskContext, source |-> "risk"]]>>

\* The environment of one retrieval call, collaborator by collaborator: is the
\* index name configured, are the credentials of the backend clients
\* configured, the exception of the embedding request, the exception of the
\* index query, and the matches the query returns.
Backend(rag) ==
    [index_name |-> rag # "get_fault",
     credentials |-> rag # "init_fault",
     embedding |-> IF rag = "embed_fault" THEN EmbedFault ELSE NoExc,
     query |-> IF rag = "query_fault" THEN QueryFault ELSE NoExc,
     matches |-> IF rag = "empty" THEN <<>> ELSE Matches]

\* get_rag_system; the cache holds at most the company instance
get_rag_system(cache, rag) ==
    IF ~Backend(rag).index_name THEN [instance |-> cache, exc |-> RagFault]
    ELSE IF ~cache.created THEN [instance |-> RAGSystem, exc |-> NoExc]
    ELSE [instance |-> cache, exc |-> NoExc]

\* _get_company_rag_instance
GetCompanyRagInstance(instance, rag) ==
    IF ~instance.created THEN get_rag_system(instance, rag)
    ELSE [instance |-> instance, exc |-> NoExc]

\* the try block of RAGSystem.initialize: the exception raised inside it
InitializeBody(rag) == IF Backend(rag).credentials THEN NoExc ELSE InitFault

InitializeWithoutGuard(instance, rag) ==
    IF InitializeBody(rag) # NoExc
    THEN [instance EXCEPT !.initialized = FALSE]
    ELSE [instance EXCEPT !.initialized = TRUE]

\* RAGSystem.initialize
initialize(instance, rag) ==
    IF instance.initialized THEN instance
    ELSE IF InitializeBody(rag) # NoExc
    THEN [instance EXCEPT !.initialized = FALSE]
    ELSE [instance EXCEPT !.initialized = TRUE]

\* the values _company_rag_instance takes
Instances == {NoInstance, RAGSystem, [RAGSystem EXCEPT !.initialized = TRUE]}

\* What get_rag_response returns: None or a RagResponse.
NoResult == [t |-> "none", documents |-> <<>>]
RagResponse(documents) == [t |-> "RagResponse", documents |-> documents]

\* the `documents` list built from the matches
Documents(matches) ==
    [i \in 1..Len(matches) |->
        [content |-> IF "text" \in DOMAIN matches[i].metadata
                     THEN matches[i].metadata.text ELSE "",
         score |-> matches[i].score]]

\* The add_retriever_span calls of get_rag_response: for zero matches, for
\* documents, for a fault caught by the except clause.
EmptySpan(query) ==
    [name |-> "RAG Retriever", input |-> query, output |-> <<>>,
     metadata |-> [document_count |-> "0"]]

SuccessSpan(query, documents) ==
    [name |-> "RAG Retriever", input |-> query,
     output |-> [i \in 1..Len(documents) |-> documents[i].content],
     metadata |-> [document_count |-> ToString(Len(documents))]]

ErrorSpan(query, e) ==
    [name |-> "RAG Retriever", input |-> query, output |-> <<>>,
     metadata |-> [document_count |-> "0", error |-> e]]

EmitRetrieverSpanUnguarded(galileo_logger, span, rtel) ==
    IF galileo_logger = None THEN [spans |-> <<>>, exc |-> NoExc]
    ELSE [spans |-> <<[span |-> span, delivered |-> rtel = "ok"]>>,
          exc |-> IF rtel = "ok" THEN NoExc ELSE TelemetryFault]

\* `if galileo_logger: try: add_retriever_span(...) except Exception: print`:
\* the calls made to the handle (delivered when the handle did not raise) and
\* the exception that leaves the statement
EmitRetrieverSpan(galileo_logger, span, rtel) ==
    IF galileo_logger = None THEN [spans |-> <<>>, exc |-> NoExc]
    ELSE [spans |-> <<[span |-> span, delivered |-> rtel = "ok"]>>, exc |-> NoExc]

\* Result of a call of the retrieval client: the instance afterwards, the
\* value returned, the exception raised, the add_retriever_span calls made.
RagResult(instance, r, e, spans) ==
    [instance |-> instance, ret |-> r, exc |-> e, spans |-> spans]

\* the try block of get_rag_response (lines 102-175)
RetrieveBody(query, galileo_logger, rag, rtel) ==
    IF Backend(rag).embedding # NoExc
    THEN [ret |-> NoResult, exc |-> Backend(rag).embedding, spans |-> <<>>]
    ELSE IF Backend(rag).query # NoExc
    THEN [ret |-> NoResult, exc |-> Backend(rag).query, spans |-> <<>>]
    ELSE IF Backend(rag).matches = <<>>
    THEN LET e == EmitRetrieverSpan(galileo_logger, EmptySpan(query), rtel)
         IN  [ret |-> NoResult, exc |-> e.exc, spans |-> e.spans]
    ELSE LET documents == Documents(Backend(rag).matches)
             e == EmitRetrieverSpan(galileo_logger, SuccessSpan(query, documents), rtel)
         IN  [ret |-> RagResponse(documents), exc |-> e.exc, spans |-> e.spans]

\* The requests one get_rag_response call sends to the embedding backend and
\* to the vector index, in order (lines 94-113): none when the clients are
\* not initialised, no index query after an embedding request that raised.
BackendRequests(instance, rag) ==
    IF ~initialize(instance, rag).initialized THEN <<>>
    ELSE IF Backend(rag).embedding # NoExc THEN <<"embedding">>
    ELSE <<"embedding", "query">>

\* RAGSystem.get_rag_response
get_rag_response(instance, query, galileo_logger, rag, rtel) ==
    LET inst == IF ~instance.initialized THEN initialize(instance, rag) ELSE instance
    IN  IF ~inst.initialized
        THEN RagResult(inst, NoResult, NoExc, <<>>)
        ELSE LET body == RetrieveBody(query, galileo_logger, rag, rtel)
             IN  IF body.exc # NoExc
                 THEN LET e == EmitRetrieverSpan(galileo_logger,
                                   ErrorSpan(query, body.exc), rtel)
                      IN  RagResult(inst, NoResult, e.exc, body.spans \o e.spans)
                 ELSE RagResult(inst, body.ret, NoExc, body.spans)

NothingFound(query) == <<"No relevant information found for: ">> \o query

SearchEmptyContext(instance, query, galileo_logger, rag, rtel) ==
    LET rag_response == get_rag_response(instance, query, galileo_logger, rag, rtel)
    IN  RagResult(rag_response.instance,
            Join([i \in 1..Len(rag_response.ret.documents) |->
                     rag_response.ret.documents[i].content], "\n\n"),
            rag_response.exc, rag_response.spans)

\* RAGSystem.search
search(instance, query, galileo_logger, rag, rtel) ==
    LET rag_response == get_rag_response(instance, query, galileo_logger, rag, rtel)
    IN  IF rag_response.exc # NoExc
        THEN RagResult(rag_response.instance, <<>>, rag_response.exc, rag_response.spans)
        ELSE IF rag_response.ret.t = "none" \/ rag_response.ret.documents = <<>>
        THEN RagResult(rag_response.instance, NothingFound(query), NoExc,
                       rag_response.spans)
        ELSE RagResult(rag_response.instance,
                 Join([i \in 1..Len(rag_response.ret.documents) |->
                          rag_response.ret.documents[i].content], "\n\n"),
                 NoExc, rag_response.spans)

\* The answer the handle gives to the retriever span of a lookup: the one it
\* gives to the first tool span of that call.
RetrieverTel(tel) == tel[1]

\* an outcome of a tool operation together with the retrieval instance it left
WithInstance(out, instance) ==
    [store |-> out.store, ret |-> out.ret, exc |-> out.exc, spans |-> out.spans,
     instance |-> instance]

\* the retrieval instance after a call that had the outcome `out`
InstanceAfter(out, instance) ==
    IF "instance" \in DOMAIN out THEN out.instance ELSE instance

\* --------------------------------------------------------- tool operations
LookupErrorPrefix == "Error looking up company information: "
CertErrorPrefix == "Error saving compliance certifications: "
DataErrorPrefix == "Error saving data access requirements: "
SummaryErrorPrefix == "Error retrieving application summary: "

LookupSettingFlagOnly(sessions, instance, company_name, country, session_id, galileo_logger, tel, rag) ==
    LET rag_instance == GetCompanyRagInstance(instance, rag)
        found == search(rag_instance.instance, SearchQuery(company_name, country),
                        galileo_logger, rag, RetrieverTel(tel))
    IN
    IF rag_instance.exc # NoExc
    THEN WithInstance(FailWithSpan(sessions, rag_instance.exc, LookupErrorPrefix,
                                   galileo_logger, tel), rag_instance.instance)
    ELSE IF found.exc # NoExc
    THEN WithInstance(FailWithSpan(sessions, found.exc, LookupErrorPrefix,
                                   galileo_logger, tel), found.instance)
    ELSE
      LET s1 == IF session_id # ""
                THEN LET a == IF session_id \in DOMAIN sessions THEN sessions
                              ELSE DictSet(sessions, session_id, EmptyDict)
                         c == DictSet(a, session_id,
                                  DictSet(a[session_id], "company_lookup_complete", TRUE))
                     IN  CheckAndMarkApplicationComplete(c, session_id)
                ELSE sessions
      IN  WithInstance(FinishWithSpan(s1, found.ret, LookupErrorPrefix,
                                      galileo_logger, tel), found.instance)

LookupMarkingOnlyWhenFound(sessions, instance, company_name, country, session_id, galileo_logger, tel, rag) ==
    LET rag_instance == GetCompanyRagInstance(instance, rag)
        found == search(rag_instance.instance, SearchQuery(company_name, country),
                        galileo_logger, rag, RetrieverTel(tel))
    IN
    IF rag_instance.exc # NoExc
    THEN WithInstance(FailWithSpan(sessions, rag_instance.exc, LookupErrorPrefix,
                                   galileo_logger, tel), rag_instance.instance)
    ELSE IF found.exc # NoExc
    THEN WithInstance(FailWithSpan(sessions, found.exc, LookupErrorPrefix,
                                   galileo_logger, tel), found.instance)
    ELSE
      LET result == found.ret
          s1 == IF session_id # ""
                   /\ result # NothingFound(SearchQuery(company_name, country))
                THEN LET a == IF session_id \in DOMAIN sessions THEN sessions
                              ELSE DictSet(sessions, session_id, EmptyDict)
                         b == DictSet(a, session_id,
                                  DictSet(a[session_id], "company_name", company_name))
                         c == DictSet(b, session_id,
                                  DictSet(b[session_id], "company_lookup_complete", TRUE))
                     IN  CheckAndMarkApplicationComplete(c, session_id)
                ELSE sessions
      IN  WithInstance(FinishWithSpan(s1, result, LookupErrorPrefix,
                                      galileo_logger, tel), found.instance)

LookupMarkingBeforeSearch(sessions, instance, company_name, country, session_id, galileo_logger, tel, rag) ==
    LET rag_instance == GetCompanyRagInstance(instance, rag)
        found == search(rag_instance.instance, SearchQuery(company_name, country),
                        galileo_logger, rag, RetrieverTel(tel))
        s1 == IF session_id # ""
              THEN LET a == IF session_id \in DOMAIN sessions THEN sessions
                            ELSE DictSet(sessions, session_id, EmptyDict)
                       b == DictSet(a, session_id,
                                DictSet(a[session_id], "company_name", company_name))
                       c == DictSet(b, session_id,
                                DictSet(b[session_id], "company_lookup_complete", TRUE))
                   IN  CheckAndMarkApplicationComplete(c, session_id)
              ELSE sessions
    IN
    IF rag_instance.exc # NoExc
    THEN WithInstance(FailWithSpan(s1, rag_instance.exc, LookupErrorPrefix,
                                   galileo_logger, tel), rag_instance.instance)
    ELSE IF found.exc # NoExc
    THEN WithInstance(FailWithSpan(s1, found.exc, LookupErrorPrefix,
                                   galileo_logger, tel), found.instance)
    ELSE WithInstance(FinishWithSpan(s1, found.ret, LookupErrorPrefix,
                                     galileo_logger, tel), found.instance)

\* lookup_company_information
lookup_company_information(sessions, instance, company_name, country, session_id, galileo_logger, tel, rag) ==
    LET rag_instance == GetCompanyRagInstance(instance, rag)
        found == search(rag_instance.instance, SearchQuery(company_name, country),
                        galileo_logger, rag, RetrieverTel(tel))
    IN
    IF rag_instance.exc # NoExc
    THEN WithInstance(FailWithSpan(sessions, rag_instance.exc, LookupErrorPrefix,
                                   galileo_logger, tel), rag_instance.instance)
    ELSE IF found.exc # NoExc
    THEN WithInstance(FailWithSpan(sessions, found.exc, LookupErrorPrefix,
                                   galileo_logger, tel), found.instance)
    ELSE
      LET result == found.ret
          s1 == IF session_id # ""
                THEN LET a == IF session_id \in DOMAIN sessions THEN sessions
                              ELSE DictSet(sessions, session_id, EmptyDict)
                         b == DictSet(a, session_id,
                                  DictSet(a[session_id], "company_name", company_name))
                         c == DictSet(b, session_id,
                                  DictSet(b[session_id], "company_lookup_complete", TRUE))
                     IN  CheckAndMarkApplicationComplete(c, session_id)
                ELSE sessions
      IN  WithInstance(FinishWithSpan(s1, result, LookupErrorPrefix,
                                      galileo_logger, tel), found.instance)

SavedAtRefreshed(session_data) ==
    IF "company_name" \in DOMAIN session_data THEN "2024-01-16" ELSE "2024-01-15"

\* the *_saved_at value the save operations write into the session
SavedAt(session_data) == "2024-01-15"

CertResult(company_name, certifications) ==
    <<"(check) Compliance certifications saved for ", company_name, ":\n", certifications,
      "\n\nThis information has been stored for the vendor risk assessment.">>

SaveCertificationsKeepingName(sessions, session_id, company_name, certifications, galileo_logger, tel) ==
    LET a == IF session_id \in DOMAIN sessions THEN sessions
             ELSE DictSet(sessions, session_id, EmptyDict)
        b == DictSet(a, session_id,
                 DictUpdate([company_name |-> company_name,
                             compliance_certifications |-> certifications,
                             certifications_saved_at |-> SavedAt(a[session_id])],
                            a[session_id]))
        s1 == CheckAndMarkApplicationComplete(b, session_id)
    IN  FinishWithSpan(s1, CertResult(company_name, certifications),
                       CertErrorPrefix, galileo_logger, tel)

\* save_compliance_certifications
save_compliance_certifications(sessions, session_id, company_name, certifications, galileo_logger, tel) ==
    LET a == IF session_id \in DOMAIN sessions THEN sessions
             ELSE DictSet(sessions, session_id, EmptyDict)
        b == DictSet(a, session_id,
                 DictUpdate(a[session_id],
                     [company_name |-> company_name,
                      compliance_certifications |-> certifications,
                      certifications_saved_at |-> SavedAt(a[session_id])]))
        s1 == CheckAndMarkApplicationComplete(b, session_id)
    IN  FinishWithSpan(s1, CertResult(company_name, certifications),
                       CertErrorPrefix, galileo_logger, tel)

DataResult(company_name, data_access_needs) ==
    <<"(check) Data access requirements saved for ", company_name, ":\n", data_access_needs,
      "\n\nThis information has been stored for review.">>

\* save_data_access_requirements
save_data_access_requirements(sessions, session_id, company_name, data_access_needs, galileo_logger, tel) ==
    LET a == IF session_id \in DOMAIN sessions THEN sessions
             ELSE DictSet(sessions, session_id, EmptyDict)
        b == DictSet(a, session_id,
                 DictUpdate(a[session_id],
                     [company_name |-> company_name,
                      data_access_needs |-> data_access_needs,
                      data_access_saved_at |-> SavedAt(a[session_id])]))
        s1 == CheckAndMarkApplicationComplete(b, session_id)
    IN  FinishWithSpan(s1, DataResult(company_name, data_access_needs),
                       DataErrorPrefix, galileo_logger, tel)

NoApplicationText ==
    <<"No application data found. Please start the vendor application process.">>

total_items == 3

CompletedItemsAllKeys(session_data) == Cardinality(DOMAIN session_data)

\* completed_items of get_onboarding_summary
CompletedItems(session_data) ==
    Cardinality({k \in RequiredKeySet : k \in DOMAIN session_data})

RemainingLastFirst(session_data) ==
    (IF "data_access_needs" \notin DOMAIN session_data
     THEN <<"Data access requirements">> ELSE <<>>)
    \o (IF "company_name" \notin DOMAIN session_data
        THEN <<"Company information">> ELSE <<>>)
    \o (IF "compliance_certifications" \notin DOMAIN session_data
        THEN <<"Compliance certifications">> ELSE <<>>)

\* the `remaining` list of get_onboarding_summary
Remaining(session_data) ==
    (IF "company_name" \notin DOMAIN session_data
     THEN <<"Company information">> ELSE <<>>)
    \o (IF "compliance_certifications" \notin DOMAIN session_data
        THEN <<"Compliance certifications">> ELSE <<>>)
    \o (IF "data_access_needs" \notin DOMAIN session_data
        THEN <<"Data access requirements">> ELSE <<>>)

\* the summary text of get_onboarding_summary for a session that exists
SummaryText(session_data) ==
    <<"(clipboard) VENDOR APPLICATION SUMMARY\n\n">>
    \o (IF "company_name" \in DOMAIN session_data
        THEN <<"**Company:** ", session_data["company_name"], "\n">> ELSE <<>>)
    \o (IF "compliance_certifications" \in DOMAIN session_data
        THEN <<"**Compliance Certifications:** ",
               session_data["compliance_certifications"], "\n">> ELSE <<>>)
    \o (IF "data_access_needs" \in DOMAIN session_data
        THEN <<"**Data Access Requirements:** ",
               session_data["data_access_needs"], "\n">> ELSE <<>>)
    \o <<"\n**Application Status:** ", ToString(CompletedItems(session_data)), "/",
         ToString(total_items), " sections completed\n">>
    \o (IF CompletedItems(session_data) = total_items
        THEN <<"\n(check) **Application Complete** - All required information has been collected.">>
        ELSE <<"\n(hourglass) **Pending:** ">> \o Join(Remaining(session_data), ", "))

SummaryCreatingSession(sessions, session_id, galileo_logger, tel) ==
    LET a == IF session_id \in DOMAIN sessions THEN sessions
             ELSE DictSet(sessions, session_id, EmptyDict)
    IN  FinishWithSpan(a, SummaryText(a[session_id]), SummaryErrorPrefix,
                       galileo_logger, tel)

SummaryWritingStatus(sessions, session_id, galileo_logger, tel) ==
    IF session_id \notin DOMAIN sessions
    THEN FinishWithSpan(sessions, NoApplicationText, SummaryErrorPrefix,
                        galileo_logger, tel)
    ELSE LET session_data == sessions[session_id]
             s1 == DictSet(sessions, session_id,
                       DictSet(session_data, "application_complete",
                               CompletedItems(session_data) = total_items))
         IN  FinishWithSpan(s1, SummaryText(session_data), SummaryErrorPrefix,
                            galileo_logger, tel)

\* get_onboarding_summary
get_onboarding_summary(sessions, session_id, galileo_logger, tel) ==
    IF session_id \notin DOMAIN sessions
    THEN \* the no_data span is emitted inside the try as well
         FinishWithSpan(sessions, NoApplicationText, SummaryErrorPrefix,
                        galileo_logger, tel)
    ELSE LET session_data == sessions[session_id]
             s1 == IF CompletedItems(session_data) = total_items
                   THEN DictSet(sessions, session_id,
                            DictSet(session_data, "application_complete", TRUE))
                   ELSE sessions
         IN  FinishWithSpan(s1, SummaryText(session_data), SummaryErrorPrefix,
                            galileo_logger, tel)

\* ------------------------------------------------ direct tool operations
\* Telemetry behaviours that can be told apart with this handle.
TelChoices(galileo_logger) ==
    IF galileo_logger = None THEN {<<"ok", "ok">>} ELSE TelBehaviours

NoCall == [op |-> "none"]

\* No process_query call is running and the last direct call has been
\* taken note of.
Idle == pc = "idle" /\ last = NoCall

CallLookup ==
    /\ Idle
    /\ \E company_name \in Names, country \in Countries, session_id \in SessionIds,
          galileo_logger \in Loggers, rag \in RagOutcomes :
        \E tel \in TelChoices(galileo_logger) :
          \E out \in {lookup_company_information(store, company_rag, company_name,
                         country, session_id, galileo_logger, tel, rag)} :
              /\ store' = out.store
              /\ company_rag' = out.instance
              /\ last' = [op |-> "lookupCompanyInformation",
                          session_id |-> session_id, company_name |-> company_name,
                          value |-> country, galileo_logger |-> galileo_logger,
                          tel |-> tel, rag |-> rag, pre |-> store, rag_pre |-> company_rag,
                          ret |-> out.ret, exc |-> out.exc, spans |-> out.spans]
    /\ UNCHANGED agentVars

CallSaveCompliance ==
    /\ Idle
    /\ \E company_name \in Names, certifications \in Certs, session_id \in SessionIds,
          galileo_logger \in Loggers :
        \E tel \in TelChoices(galileo_logger) :
          \E out \in {save_compliance_certifications(store, session_id, company_name,
                         certifications, galileo_logger, tel)} :
              /\ store' = out.store
              /\ UNCHANGED company_rag
              /\ last' = [op |-> "saveComplianceCertifications",
                          session_id |-> session_id, company_name |-> company_name,
                          value |-> certifications, galileo_logger |-> galileo_logger,
                          tel |-> tel, rag |-> "docs", pre |-> store, rag_pre |-> company_rag,
                          ret |-> out.ret, exc |-> out.exc, spans |-> out.spans]
    /\ UNCHANGED agentVars

CallSaveDataAccess ==
    /\ Idle
    /\ \E company_name \in Names, data_access_needs \in Needs, session_id \in SessionIds,
          galileo_logger \in Loggers :
        \E tel \in TelChoices(galileo_logger) :
          \E out \in {save_data_access_requirements(store, session_id, company_name,
                         data_access_needs, galileo_logger, tel)} :
              /\ store' = out.store
              /\ UNCHANGED company_rag
              /\ last' = [op |-> "saveDataAccessRequirements",
                          session_id |-> session_id, company_name |-> company_name,
                          value |-> data_access_needs, galileo_logger |-> galileo_logger,
                          tel |-> tel, rag |-> "docs", pre |-> store, rag_pre |-> company_rag,
                          ret |-> out.ret, exc |-> out.exc, spans |-> out.spans]
    /\ UNCHANGED agentVars

CallSummary ==
    /\ Idle
    /\ \E session_id \in SessionIds, galileo_logger \in Loggers :
        \E tel \in TelChoices(galileo_logger) :
          \E out \in {get_onboarding_summary(store, session_id, galileo_logger, tel)} :
              /\ store' = out.store
              /\ UNCHANGED company_rag
              /\ last' = [op |-> "getOnboardingSummary",
                          session_id |-> session_id, company_name |-> "",
                          value |-> "", galileo_logger |-> galileo_logger,
                          tel |-> tel, rag |-> "docs", pre |-> store, rag_pre |-> company_rag,
                          ret |-> out.ret, exc |-> out.exc, spans |-> out.spans]
    /\ UNCHANGED agentVars

\* ------------------------------------------------------------- messages
\* Python values that are None or a string (a string is its segments).
PyNone == [t |-> "none", v |-> <<>>]
Str(segs) == [t |-> "str", v |-> segs]

\* truth value of `content` in `content or "No response generated"`
Truthy(content) == content.t = "str" /\ content.v # <<>>

Placeholder == <<"No response generated">>

ContentAsIs(message) == message.content.v

\* `message.content or "No response generated"`
ContentOrPlaceholder(message) ==
    IF Truthy(message.content) THEN message.content.v ELSE Placeholder

\* default_system_prompt of VendorAgentRunner.__init__, an f-string over the
\* runner's session id
DefaultSystemPrompt(session_id) ==
    <<"You are a Third-Party Vendor Onboarding Assistant. ... session_id=\"",
      session_id, "\" ... Always use session_id=\"", session_id, "\" ...">>

\* VendorAgentRunner.__init__
VendorAgentRunner(session_id, galileo_logger) ==
    LET sid == IF session_id \in {None, ""} THEN DefaultSessionId ELSE session_id
    IN  [session_id |-> sid,
         galileo_logger |-> galileo_logger,
         system_prompt |-> DefaultSystemPrompt(sid)]

\* The runners of the model: one constructed without a session id and without
\* a telemetry handle, one with both.
Runners == {VendorAgentRunner(None, None), VendorAgentRunner("s1", "handle")}

\* Elements of the caller's conversation list.
LangChainMessage(type, text) == [form |-> "langchain", type |-> type, content |-> Str(text)]
DictMessage(role, text) == [form |-> "dict", msg |-> [role |-> role, content |-> Str(text)]]

Conversations ==
    { <<LangChainMessage("human", <<"We are Acme Inc from the US">>)>>,
      <<LangChainMessage("human", <<"Hello">>),
        LangChainMessage("ai", <<"Welcome. What is your company name?">>),
        DictMessage("user", <<"Acme Inc">>)>> }

RECURSIVE ConvertMessages(_)
\* the loop over conversation_messages of process_query
ConvertMessages(msgs) ==
    IF msgs = <<>> THEN <<>>
    ELSE LET msg == Head(msgs)
             converted ==
                 IF msg.form = "langchain"
                 THEN IF msg.type = "human"
                      THEN <<[role |-> "user", content |-> msg.content]>>
                      ELSE IF msg.type = "ai"
                      THEN <<[role |-> "assistant", content |-> msg.content]>>
                      ELSE <<>>
                 ELSE IF msg.form = "dict" THEN <<msg.msg>>
                 ELSE <<>>
         IN  converted \o ConvertMessages(Tail(msgs))

\* -------------------------------------------------------- tool invocations
\* The raw argument payload of an invocation, by what json.loads makes of it.
Arguments(obj) == [kind |-> "object", obj |-> obj]
Malformed == [kind |-> "malformed", obj |-> EmptyDict]
NotAnObject == [kind |-> "array", obj |-> EmptyDict]

Invocation(name, arguments) == [name |-> name, arguments |-> arguments]

\* Invocations the model replies of a turn are built from: the session id
\* left out or naming session "s1", a name that is not registered, a payload
\* that is not JSON, and arguments that miss a required parameter.
AgentInvocations ==
    { Invocation("lookupCompanyInformation",
                 Arguments([company_name |-> "Acme", country |-> "US"])),
      Invocation("saveComplianceCertifications",
                 Arguments([company_name |-> "Acme", certifications |-> "SOC2"])),
      Invocation("saveDataAccessRequirements",
                 Arguments([session_id |-> "s1", company_name |-> "Acme",
                            data_access_needs |-> "PII"])),
      Invocation("deleteVendor", Arguments(EmptyDict)),
      Invocation("saveComplianceCertifications", Malformed),
      Invocation("saveComplianceCertifications",
                 Arguments([company_name |-> "Acme"])) }

CallId(i) == <<"call", i>>

ToolCall(i, inv) == [id |-> CallId(i), type |-> "function", function |-> inv]

\* Lists of n invocations, the i-th with correlation id CallId(i).
ToolCallLists(n) ==
    {[i \in 1..n |-> ToolCall(i, f[i])] : f \in [1..n -> AgentInvocations]}

Reply(content, tool_calls) ==
    [role |-> "assistant", content |-> content, tool_calls |-> tool_calls]

NoReply == [role |-> "none", content |-> PyNone, tool_calls |-> <<>>]

FirstText == <<"Let me look that up.">>
FinalText == <<"Thank you. Which certifications do you hold?">>

\* First replies of the model: without invocations (tool_calls None or
\* empty), or with 1..MaxCalls invocations.
FirstReplies ==
    {Reply(c, <<>>) : c \in {PyNone, Str(<<>>), Str(FirstText)}}
    \cup {Reply(Str(FirstText), calls) :
              calls \in UNION {ToolCallLists(n) : n \in 1..MaxCalls}}

FollowUpCalls ==
    <<ToolCall(1, Invocation("saveDataAccessRequirements",
                   Arguments([company_name |-> "Beta", data_access_needs |-> "PII"])))>>

\* Follow-up replies of the model; some carry invocations of their own.
FollowUpReplies ==
    {Reply(c, <<>>) : c \in {PyNone, Str(FinalText)}}
    \cup {Reply(c, FollowUpCalls) : c \in {Str(<<>>), Str(FinalText)}}

ModelFaults == {"Connection error."}

\* ------------------------------------------------------------ tool executor
JsonDecodeError == "Expecting value: line 1 column 1 (char 0)"
ItemAssignmentError == "'list' object does not support item assignment"
MissingArgument == "missing required positional argument"
UnexpectedArgument == "got an unexpected keyword argument"

\* The TypeError of calling a function with **arguments, NoExc when the
\* keywords bind to the parameters.
BindFault(arguments, required, optional) ==
    IF ~(DOMAIN arguments \subseteq (required \cup optional)) THEN UnexpectedArgument
    ELSE IF ~(required \subseteq DOMAIN arguments) THEN MissingArgument
    ELSE NoExc

\* value of a keyword parameter with a default
Arg(arguments, k, default) == IF k \in DOMAIN arguments THEN arguments[k] ELSE default

ExecutorError(function_name, msg) == <<"Error executing ", function_name, ": ", msg>>

UnknownToolRaises(sessions, function_name) ==
    Outcome(sessions, <<>>, "Unknown tool", 0)

\* the else branch of the dispatch (line 82)
UnknownTool(sessions, function_name) ==
    Outcome(sessions, <<"Unknown tool: ", function_name>>, NoExc, 0)

\* the try block of execute_tool_call: the dispatch on the tool name
Dispatch(sessions, instance, function_name, arguments, tel, rag) ==
    IF function_name = "lookupCompanyInformation"
    THEN IF BindFault(arguments, {"company_name"},
                      {"country", "session_id", "galileo_logger"}) # NoExc
         THEN Outcome(sessions, <<>>,
                  BindFault(arguments, {"company_name"},
                            {"country", "session_id", "galileo_logger"}), 0)
         ELSE lookup_company_information(sessions, instance, arguments["company_name"],
                  Arg(arguments, "country", ""), Arg(arguments, "session_id", ""),
                  Arg(arguments, "galileo_logger", None), tel, rag)
    ELSE IF function_name = "saveComplianceCertifications"
    THEN IF BindFault(arguments, {"session_id", "company_name", "certifications"},
                      {"galileo_logger"}) # NoExc
         THEN Outcome(sessions, <<>>,
                  BindFault(arguments, {"session_id", "company_name", "certifications"},
                            {"galileo_logger"}), 0)
         ELSE save_compliance_certifications(sessions, arguments["session_id"],
                  arguments["company_name"], arguments["certifications"],
                  Arg(arguments, "galileo_logger", None), tel)
    ELSE IF function_name = "saveDataAccessRequirements"
    THEN IF BindFault(arguments, {"session_id", "company_name", "data_access_needs"},
                      {"galileo_logger"}) # NoExc
         THEN Outcome(sessions, <<>>,
                  BindFault(arguments, {"session_id", "company_name", "data_access_needs"},
                            {"galileo_logger"}), 0)
         ELSE save_data_access_requirements(sessions, arguments["session_id"],
                  arguments["company_name"], arguments["data_access_needs"],
                  Arg(arguments, "galileo_logger", None), tel)
    ELSE IF function_name = "getOnboardingSummary"
    THEN IF BindFault(arguments, {"session_id"}, {"galileo_logger"}) # NoExc
         THEN Outcome(sessions, <<>>,
                  BindFault(arguments, {"session_id"}, {"galileo_logger"}), 0)
         ELSE get_onboarding_summary(sessions, arguments["session_id"],
                  Arg(arguments, "galileo_logger", None), tel)
    ELSE UnknownTool(sessions, function_name)

InjectedArgumentsNoSession(loaded, session_id, galileo_logger) ==
    DictSet(loaded, "galileo_logger", galileo_logger)

InjectedArgumentsDefaultId(loaded, session_id, galileo_logger) ==
    LET withLogger == DictSet(loaded, "galileo_logger", galileo_logger)
    IN  IF "session_id" \notin DOMAIN withLogger /\ session_id # ""
        THEN DictSet(withLogger, "session_id", DefaultSessionId)
        ELSE withLogger

InjectedArgumentsReplacingEmpty(loaded, session_id, galileo_logger) ==
    LET withLogger == DictSet(loaded, "galileo_logger", galileo_logger)
    IN  IF session_id # ""
           /\ ("session_id" \notin DOMAIN withLogger \/ withLogger["session_id"] = "")
        THEN DictSet(withLogger, "session_id", session_id)
        ELSE withLogger

\* lines 64-69 of execute_tool_call: the arguments the operation is called
\* with, from the parsed arguments of the invocation
InjectedArguments(loaded, session_id, galileo_logger) ==
    LET withLogger == DictSet(loaded, "galileo_logger", galileo_logger)
    IN  IF "session_id" \notin DOMAIN withLogger /\ session_id # ""
        THEN DictSet(withLogger, "session_id", session_id)
        ELSE withLogger

\* execute_tool_call
execute_tool_call(sessions, instance, tool_call, session_id, galileo_logger, tel, rag) ==
    LET function_name == tool_call.function.name
        loaded == tool_call.function.arguments
    IN  IF loaded.kind = "malformed"
        THEN Outcome(sessions, <<>>, JsonDecodeError, 0)
        ELSE IF loaded.kind # "object"
        THEN Outcome(sessions, <<>>, ItemAssignmentError, 0)
        ELSE LET arguments == InjectedArguments(loaded.obj, session_id, galileo_logger)
                 out == Dispatch(sessions, instance, function_name, arguments, tel, rag)
             IN  IF out.exc # NoExc
                 THEN [out EXCEPT !.ret = ExecutorError(function_name, out.exc),
                                  !.exc = NoExc]
                 ELSE out

\* d without key k
Without(d, k) == [x \in (DOMAIN d) \ {k} |-> d[x]]

\* Argument objects a model can send for an operation: the declared
\* parameters, one of them left out, an undeclared one added, a galileo_logger
\* of the model's own.
ArgVariants(full, valueKey) ==
    { full, Without(full, "session_id"), Without(full, valueKey),
      DictSet(full, "priority", "high"),
      DictSet(full, "galileo_logger", "handle of the model") }

\* Invocations handed to the tool executor directly.
ExecutorInvocations ==
    UNION { {Invocation("lookupCompanyInformation", Arguments(a)) :
                a \in ArgVariants([session_id |-> sid, company_name |-> "Acme",
                                   country |-> "US"], "company_name")}
            \cup {Invocation("saveComplianceCertifications", Arguments(a)) :
                a \in ArgVariants([session_id |-> sid, company_name |-> "Acme",
                                   certifications |-> "SOC2"], "certifications")}
            \cup {Invocation("saveDataAccessRequirements", Arguments(a)) :
                a \in ArgVariants([session_id |-> sid, company_name |-> "Beta",
                                   data_access_needs |-> "PII"], "company_name")}
            \cup {Invocation("getOnboardingSummary", Arguments(a)) :
                a \in {[session_id |-> sid], EmptyDict,
                       [session_id |-> sid, verbose |-> "yes"]}}
          : sid \in SessionIds }
    \cup { Invocation("deleteVendor", Arguments(EmptyDict)),
           Invocation("saveComplianceCertifications", Malformed),
           Invocation("getOnboardingSummary", NotAnObject) }

\* Retrieval outcomes an invocation can meet (only a lookup reaches retrieval).
RagChoices(tool_call) ==
    IF tool_call.function.name = "lookupCompanyInformation"
       /\ tool_call.function.arguments.kind = "object"
    THEN RagOutcomes ELSE {"docs"}

\* execute_tool_call called on its own, for a runner session id s1 or for an
\* empty one
CallExecuteToolCall ==
    /\ Idle
    /\ \E inv \in ExecutorInvocations, session_id \in SessionIds,
          galileo_logger \in Loggers :
        \E tel \in TelChoices(galileo_logger), rag \in RagChoices(ToolCall(1, inv)) :
          \E out \in {execute_tool_call(store, company_rag, ToolCall(1, inv),
                                        session_id, galileo_logger, tel, rag)} :
              /\ store' = out.store
              /\ company_rag' = InstanceAfter(out, company_rag)
              /\ last' = [op |-> "execute_tool_call",
                          session_id |-> session_id, company_name |-> "",
                          value |-> inv, galileo_logger |-> galileo_logger,
                          tel |-> tel, rag |-> rag, pre |-> store, rag_pre |-> company_rag,
                          ret |-> out.ret, exc |-> out.exc, spans |-> out.spans]
    /\ UNCHANGED agentVars

\* --------------------------------------- direct calls of the retrieval client
\* Queries the retrieval client is called with.
Queries == {SearchQuery(company_name, country) :
                company_name \in Names, country \in Countries}

\* Answers the handle can give to add_retriever_span.
RetrieverTelChoices(galileo_logger) ==
    IF galileo_logger = None THEN {"ok"} ELSE TelOutcomes

\* _get_company_rag_instance called on its own
CallGetCompanyRagInstance ==
    /\ Idle
    /\ \E rag \in RagOutcomes :
        \E out \in {GetCompanyRagInstance(company_rag, rag)} :
          /\ company_rag' = out.instance
          /\ last' = [op |-> "_get_company_rag_instance", query |-> <<>>,
                      galileo_logger |-> None, rtel |-> "ok", rag |-> rag,
                      rag_pre |-> company_rag, ret |-> out.instance,
                      exc |-> out.exc, spans |-> <<>>]
    /\ UNCHANGED <<store, agentVars>>

\* get_rag_response called on the company instance
CallGetRagResponse ==
    /\ Idle
    /\ company_rag.created
    /\ \E query \in Queries, galileo_logger \in Loggers, rag \in RagOutcomes :
        \E rtel \in RetrieverTelChoices(galileo_logger) :
          \E out \in {get_rag_response(company_rag, query, galileo_logger, rag, rtel)} :
            /\ company_rag' = out.instance
            /\ last' = [op |-> "get_rag_response", query |-> query,
                        galileo_logger |-> galileo_logger, rtel |-> rtel,
                        rag |-> rag, rag_pre |-> company_rag, ret |-> out.ret,
                        exc |-> out.exc, spans |-> out.spans]
    /\ UNCHANGED <<store, agentVars>>

\* search called on the company instance
CallSearch ==
    /\ Idle
    /\ company_rag.created
    /\ \E query \in Queries, galileo_logger \in Loggers, rag \in RagOutcomes :
        \E rtel \in RetrieverTelChoices(galileo_logger) :
          \E out \in {search(company_rag, query, galileo_logger, rag, rtel)} :
            /\ company_rag' = out.instance
            /\ last' = [op |-> "search", query |-> query,
                        galileo_logger |-> galileo_logger, rtel |-> rtel,
                        rag |-> rag, rag_pre |-> company_rag, ret |-> out.ret,
                        exc |-> out.exc, spans |-> out.spans]
    /\ UNCHANGED <<store, agentVars>>

\* the caller has taken note of the result of the direct call
ResultConsumed ==
    /\ pc = "idle"
    /\ last # NoCall
    /\ last' = NoCall
    /\ UNCHANGED <<store, company_rag, agentVars>>

\* ------------------------------------------------------ orchestration loop
ProcessingError(msg) == <<"Error processing your request: ", msg>>

\* How process_query ends when the exception e reaches its outermost frame:
\* the value it returns and the exception that leaves it.
OuterExceptMissing(e) == [ret |-> <<>>, raised |-> e]

\* the except clause at lines 275-277
OuterExcept(e) == [ret |-> ProcessingError(e), raised |-> NoExc]

\* The guarded add_llm_span of process_query: the exception that leaves the
\* inner try/except when the emission has the given outcome.
AddLlmSpan(galileo_logger, outcome) == NoExc

ProcessQueryEntryCreatingSession ==
    /\ pc = "idle"
    /\ \E runner \in Runners, conv \in Conversations :
        /\ self' = runner
        /\ sink' \in TelChoices(runner.galileo_logger)
        /\ conversation_messages' = conv
        /\ messages_to_use' =
               <<[role |-> "system", content |-> Str(runner.system_prompt)]>>
               \o ConvertMessages(conv)
        /\ requests' = <<messages_to_use'>>
        /\ store' = IF runner.session_id \in DOMAIN store THEN store
                    ELSE DictSet(store, runner.session_id, EmptyDict)
    /\ pc' = "AWAITING_MODEL"
    /\ store0' = store
    /\ UNCHANGED <<company_rag, last, response_message, final_message, idx,
                   executions, ret, raised>>

\* process_query, lines 137-162: build the working history, issue the request
ProcessQueryEntry ==
    /\ pc = "idle"
    /\ \E runner \in Runners, conv \in Conversations :
        /\ self' = runner
        /\ sink' \in TelChoices(runner.galileo_logger)
        /\ conversation_messages' = conv
        /\ messages_to_use' =
               <<[role |-> "system", content |-> Str(runner.system_prompt)]>>
               \o ConvertMessages(conv)
        /\ requests' = <<messages_to_use'>>
    /\ pc' = "AWAITING_MODEL"
    /\ store0' = store
    /\ UNCHANGED <<store, company_rag, last, response_message, final_message, idx,
                   executions, ret, raised>>

\* the initial request returns a reply (line 164)
ModelReplies ==
    /\ pc = "AWAITING_MODEL"
    /\ \E reply \in FirstReplies : response_message' = reply
    /\ pc' = "MODEL_RESPONDED"
    /\ UNCHANGED <<store, company_rag, last, self, conversation_messages, messages_to_use,
                   final_message, idx, requests, executions, ret, raised, store0, sink>>

ModelRequestFaultsAndIsRetried ==
    /\ pc = "AWAITING_MODEL"
    /\ Len(requests) < 3
    /\ requests' = Append(requests, messages_to_use)
    /\ UNCHANGED <<store, company_rag, last, self, conversation_messages, messages_to_use,
                   response_message, final_message, idx, executions, ret, raised,
                   store0, sink, pc>>

\* the initial request faults: the outer except clause (lines 275-277)
ModelRequestFaults ==
    /\ pc = "AWAITING_MODEL"
    /\ \E msg \in ModelFaults :
        /\ ret' = OuterExcept(msg).ret
        /\ raised' = OuterExcept(msg).raised
    /\ pc' = "DONE"
    /\ UNCHANGED <<store, company_rag, last, self, conversation_messages, messages_to_use,
                   response_message, final_message, idx, requests, executions,
                   store0, sink>>

\* lines 166-200 and 273: the reply carries no invocations
ReplyWithoutTools ==
    /\ pc = "MODEL_RESPONDED"
    /\ response_message.tool_calls = <<>>
    /\ \E outcome \in TelOutcomes :
         IF AddLlmSpan(self.galileo_logger, outcome) # NoExc
         THEN /\ ret' = OuterExcept(AddLlmSpan(self.galileo_logger, outcome)).ret
              /\ raised' = OuterExcept(AddLlmSpan(self.galileo_logger, outcome)).raised
         ELSE /\ ret' = ContentOrPlaceholder(response_message)
              /\ UNCHANGED raised
    /\ pc' = "DONE"
    /\ UNCHANGED <<store, company_rag, last, self, conversation_messages, messages_to_use,
                   response_message, final_message, idx, requests, executions,
                   store0, sink>>

\* the assistant turn appended at lines 207-220
AssistantTurn(message) ==
    [role |-> "assistant",
     content |-> message.content,
     tool_calls |-> [i \in 1..Len(message.tool_calls) |->
                       [id |-> message.tool_calls[i].id,
                        type |-> message.tool_calls[i].type,
                        function |-> [name |-> message.tool_calls[i].function.name,
                                      arguments |-> message.tool_calls[i].function.arguments]]]]

ReplyWithToolsOnCallerList ==
    /\ pc = "MODEL_RESPONDED"
    /\ response_message.tool_calls # <<>>
    /\ \E outcome \in TelOutcomes :
         IF AddLlmSpan(self.galileo_logger, outcome) # NoExc
         THEN /\ ret' = OuterExcept(AddLlmSpan(self.galileo_logger, outcome)).ret
              /\ raised' = OuterExcept(AddLlmSpan(self.galileo_logger, outcome)).raised
              /\ pc' = "DONE"
              /\ UNCHANGED <<messages_to_use, conversation_messages>>
         ELSE /\ messages_to_use' = Append(messages_to_use, AssistantTurn(response_message))
              /\ conversation_messages' =
                     Append(conversation_messages,
                            [form |-> "dict", msg |-> AssistantTurn(response_message)])
              /\ pc' = "EXECUTING_TOOLS"
              /\ UNCHANGED <<ret, raised>>
    /\ idx' = 0
    /\ UNCHANGED <<store, company_rag, last, self, response_message,
                   final_message, requests, executions, store0, sink>>

\* lines 166-220: the reply carries invocations
ReplyWithTools ==
    /\ pc = "MODEL_RESPONDED"
    /\ response_message.tool_calls # <<>>
    /\ \E outcome \in TelOutcomes :
         IF AddLlmSpan(self.galileo_logger, outcome) # NoExc
         THEN /\ ret' = OuterExcept(AddLlmSpan(self.galileo_logger, outcome)).ret
              /\ raised' = OuterExcept(AddLlmSpan(self.galileo_logger, outcome)).raised
              /\ pc' = "DONE"
              /\ UNCHANGED messages_to_use
         ELSE /\ messages_to_use' = Append(messages_to_use, AssistantTurn(response_message))
              /\ pc' = "EXECUTING_TOOLS"
              /\ UNCHANGED <<ret, raised>>
    /\ idx' = 0
    /\ UNCHANGED <<store, company_rag, last, self, conversation_messages, response_message,
                   final_message, requests, executions, store0, sink>>

ToolTurnFirstId(tool_call, tool_result) ==
    [role |-> "tool", tool_call_id |-> CallId(1), content |-> Str(tool_result)]

\* the tool-result turn appended at lines 227-231
ToolTurn(tool_call, tool_result) ==
    [role |-> "tool", tool_call_id |-> tool_call.id, content |-> Str(tool_result)]

\* one iteration of the loop at lines 223-231
ExecuteNextToolCall ==
    /\ pc = "EXECUTING_TOOLS"
    /\ idx < Len(response_message.tool_calls)
    /\ LET tool_call == response_message.tool_calls[idx + 1]
       IN  \E rag \in RagChoices(tool_call) :
             \E out \in {execute_tool_call(store, company_rag, tool_call,
                            self.session_id, self.galileo_logger, sink, rag)} :
               /\ store' = out.store
               /\ company_rag' = InstanceAfter(out, company_rag)
               /\ executions' = Append(executions,
                      [call |-> tool_call, ret |-> out.ret, exc |-> out.exc,
                       pre |-> store, rag_pre |-> company_rag, post |-> out.store])
               /\ IF out.exc # NoExc
                  THEN /\ ret' = OuterExcept(out.exc).ret
                       /\ raised' = OuterExcept(out.exc).raised
                       /\ pc' = "DONE"
                       /\ UNCHANGED <<messages_to_use, idx>>
                  ELSE /\ messages_to_use' =
                              Append(messages_to_use, ToolTurn(tool_call, out.ret))
                       /\ idx' = idx + 1
                       /\ UNCHANGED <<ret, raised, pc>>
    /\ UNCHANGED <<last, self, conversation_messages, response_message,
                   final_message, requests, store0, sink>>

IssueFollowUpEarly ==
    /\ pc = "EXECUTING_TOOLS"
    /\ idx >= 1
    /\ requests' = Append(requests, messages_to_use)
    /\ pc' = "AWAITING_FOLLOWUP"
    /\ UNCHANGED <<store, company_rag, last, self, conversation_messages, messages_to_use,
                   response_message, final_message, idx, executions, ret, raised,
                   store0, sink>>

IssueFollowUpAfterOneMoreResult ==
    /\ pc = "EXECUTING_TOOLS"
    /\ idx = Len(response_message.tool_calls) + 1
    /\ requests' = Append(requests, messages_to_use)
    /\ pc' = "AWAITING_FOLLOWUP"
    /\ UNCHANGED <<store, company_rag, last, self, conversation_messages, messages_to_use,
                   response_message, final_message, idx, executions, ret, raised,
                   store0, sink>>

\* lines 234-239: every invocation is resolved, the follow-up request is issued
IssueFollowUp ==
    /\ pc = "EXECUTING_TOOLS"
    /\ idx = Len(response_message.tool_calls)
    /\ requests' = Append(requests, messages_to_use)
    /\ pc' = "AWAITING_FOLLOWUP"
    /\ UNCHANGED <<store, company_rag, last, self, conversation_messages, messages_to_use,
                   response_message, final_message, idx, executions, ret, raised,
                   store0, sink>>

FinalAnswerOfFirstReply(first, followup) == ContentOrPlaceholder(first)

\* the value returned at line 271
FinalAnswer(first, followup) == ContentOrPlaceholder(followup)

\* lines 241-271: the follow-up reply; its own invocations are not looked at
FollowUpReplied ==
    /\ pc = "AWAITING_FOLLOWUP"
    /\ \E reply \in FollowUpReplies, outcome \in TelOutcomes :
        /\ final_message' = reply
        /\ IF AddLlmSpan(self.galileo_logger, outcome) # NoExc
           THEN /\ ret' = OuterExcept(AddLlmSpan(self.galileo_logger, outcome)).ret
                /\ raised' = OuterExcept(AddLlmSpan(self.galileo_logger, outcome)).raised
           ELSE /\ ret' = FinalAnswer(response_message, reply)
                /\ UNCHANGED raised
    /\ pc' = "DONE"
    /\ UNCHANGED <<store, company_rag, last, self, conversation_messages, messages_to_use,
                   response_message, idx, requests, executions, store0, sink>>

FollowUpRequestFaultsAndRollsBack ==
    /\ pc = "AWAITING_FOLLOWUP"
    /\ \E msg \in ModelFaults :
        /\ ret' = OuterExcept(msg).ret
        /\ raised' = OuterExcept(msg).raised
    /\ pc' = "DONE"
    /\ store' = store0
    /\ UNCHANGED <<company_rag, last, self, conversation_messages, messages_to_use,
                   response_message, final_message, idx, requests, executions,
                   store0, sink>>

\* the follow-up request faults: the outer except clause (lines 275-277)
FollowUpRequestFaults ==
    /\ pc = "AWAITING_FOLLOWUP"
    /\ \E msg \in ModelFaults :
        /\ ret' = OuterExcept(msg).ret
        /\ raised' = OuterExcept(msg).raised
    /\ pc' = "DONE"
    /\ UNCHANGED <<store, company_rag, last, self, conversation_messages, messages_to_use,
                   response_message, final_message, idx, requests, executions,
                   store0, sink>>

\* process_query has returned; the working history is dropped and the caller
\* may start the next turn
Return ==
    /\ pc = "DONE"
    /\ pc' = "idle"
    /\ self' = VendorAgentRunner(None, None)
    /\ conversation_messages' = <<>>
    /\ messages_to_use' = <<>>
    /\ response_message' = NoReply
    /\ final_message' = NoReply
    /\ idx' = 0
    /\ requests' = <<>>
    /\ executions' = <<>>
    /\ ret' = <<>>
    /\ raised' = NoExc
    /\ store0' = EmptyDict
    /\ sink' = <<"ok", "ok">>
    /\ UNCHANGED <<store, company_rag, last>>

\* ------------------------------------------- turns on any caller history
SystemMessage(text) == [form |-> "langchain", type |-> "system", content |-> Str(text)]

\* Lists a caller can hand to process_query: those of Conversations, and
\* lists that carry a system turn of their own, as a LangChain message or as a
\* dict in OpenAI format.
CallerHistories ==
    Conversations
    \cup { <<SystemMessage(<<"Answer in French.">>),
             LangChainMessage("human", <<"We are Acme Inc from the US">>)>>,
           <<DictMessage("system", <<"Answer in French.">>),
             DictMessage("user", <<"We are Acme Inc from the US">>),
             DictMessage("assistant", <<"Merci.">>),
             DictMessage("user", <<"We hold SOC2">>)>> }

\* process_query, lines 137-162, for any list of the caller
ProcessQueryEntryAnyHistory ==
    /\ pc = "idle"
    /\ \E runner \in Runners, conv \in CallerHistories :
        /\ self' = runner
        /\ sink' \in TelChoices(runner.galileo_logger)
        /\ conversation_messages' = conv
        /\ messages_to_use' =
               <<[role |-> "system", content |-> Str(runner.system_prompt)]>>
               \o ConvertMessages(conv)
        /\ requests' = <<messages_to_use'>>
    /\ pc' = "AWAITING_MODEL"
    /\ store0' = store
    /\ UNCHANGED <<store, company_rag, last, response_message, final_message, idx,
                   executions, ret, raised>>

\* First replies with at most one invocation.
ShortFirstReplies ==
    {Reply(c, <<>>) : c \in {PyNone, Str(FirstText)}}
    \cup {Reply(Str(FirstText), calls) : calls \in ToolCallLists(1)}

\* the initial request returns a reply with at most one invocation (line 164)
ModelRepliesShort ==
    /\ pc = "AWAITING_MODEL"
    /\ \E reply \in ShortFirstReplies : response_message' = reply
    /\ pc' = "MODEL_RESPONDED"
    /\ UNCHANGED <<store, company_rag, last, self, conversation_messages, messages_to_use,
                   final_message, idx, requests, executions, ret, raised, store0, sink>>

\* ----------------------------------------------------------- specifications
Init ==
    /\ store = EmptyDict
    /\ company_rag = NoInstance
    /\ last = NoCall
    /\ pc = "idle"
    /\ self = VendorAgentRunner(None, None)
    /\ conversation_messages = <<>>
    /\ messages_to_use = <<>>
    /\ response_message = NoReply
    /\ final_message = NoReply
    /\ idx = 0
    /\ requests = <<>>
    /\ executions = <<>>
    /\ ret = <<>>
    /\ raised = NoExc
    /\ store0 = EmptyDict
    /\ sink = <<"ok", "ok">>

NextTools ==
    \/ CallLookup
    \/ CallSaveCompliance
    \/ CallSaveDataAccess
    \/ CallSummary
    \/ CallExecuteToolCall
    \/ ResultConsumed

\* The tool operations called directly, in any order, on any session id.
SpecTools == Init /\ [][NextTools]_vars

\* ---------------------------------------------------------------- start-up
\* The settings read from the process environment.
RequiredSettings == {"OPENAI_API_KEY", "PINECONE_API_KEY", "PINECONE_INDEX_NAME"}

\* Process environments: everything configured, or one setting missing.
Environments ==
    {RequiredSettings} \cup {RequiredSettings \ {k} : k \in RequiredSettings}

ModelKeyFault == "OPENAI_API_KEY environment variable is required"

\* lines 94-99 of VendorAgentRunner.__init__: the exception the constructor
\* raises in the given environment
ConstructorFault(environ) ==
    IF "OPENAI_API_KEY" \notin environ THEN ModelKeyFault ELSE NoExc

\* the value of st.session_state.runner while no runner was constructed
NoRunner == [session_id |-> "", galileo_logger |-> None, system_prompt |-> <<>>]

\* Retrieval environments that agree with the process environment on what
\* is configured.
RagOutcomesIn(environ) ==
    {rag \in RagOutcomes :
        /\ Backend(rag).index_name = ("PINECONE_INDEX_NAME" \in environ)
        /\ Backend(rag).credentials =
               ({"OPENAI_API_KEY", "PINECONE_API_KEY"} \subseteq environ)}

\* the application starts in some environment and constructs its runner
StartUp ==
    /\ Idle
    /\ store = EmptyDict
    /\ company_rag = NoInstance
    /\ \E environ \in Environments, session_id \in {None, "s1"}, galileo_logger \in Loggers :
        last' = [op |-> "VendorAgentRunner.__init__", environ |-> environ,
                 exc |-> ConstructorFault(environ),
                 runner |-> IF ConstructorFault(environ) = NoExc
                            THEN VendorAgentRunner(session_id, galileo_logger)
                            ELSE NoRunner]
    /\ UNCHANGED <<store, company_rag, agentVars>>

\* the call of execute_tool_call made by a turn of the constructed runner
\* (line 225), in the environment the application was started in
RunnerExecutesToolCall ==
    /\ pc = "idle"
    /\ last # NoCall
    /\ last.runner # NoRunner
    /\ \E inv \in AgentInvocations :
        \E tel \in TelChoices(last.runner.galileo_logger),
           rag \in (IF inv.name = "lookupCompanyInformation"
                    THEN RagOutcomesIn(last.environ) ELSE {"docs"}) :
          \E out \in {execute_tool_call(store, company_rag, ToolCall(1, inv),
                           last.runner.session_id, last.runner.galileo_logger,
                           tel, rag)} :
              /\ store' = out.store
              /\ company_rag' = InstanceAfter(out, company_rag)
              /\ last' = [op |-> "execute_tool_call", environ |-> last.environ,
                          exc |-> out.exc, runner |-> last.runner, value |-> inv,
                          ret |-> out.ret, rag |-> rag]
    /\ UNCHANGED agentVars

\* the process ends; the module globals go with it
Exit ==
    /\ pc = "idle"
    /\ last # NoCall
    /\ store' = EmptyDict
    /\ company_rag' = NoInstance
    /\ last' = NoCall
    /\ UNCHANGED agentVars

NextStartup ==
    \/ StartUp
    \/ RunnerExecutesToolCall
    \/ Exit

\* The application from its start: construction of the runner in some
\* environment, then the tool invocations of its turns.
SpecStartup == Init /\ [][NextStartup]_vars

\* ------------------------------------------------- calls that must terminate
\* process_query called with the first message of a conversation, while the
\* process has stored nothing yet
ProcessQueryEntryOnFreshStore ==
    /\ store = EmptyDict
    /\ company_rag = NoInstance
    /\ ProcessQueryEntry
    /\ Len(conversation_messages') = 1

NextTermination ==
    \/ ProcessQueryEntryOnFreshStore
    \/ ModelReplies
    \/ ModelRequestFaults
    \/ ReplyWithoutTools
    \/ ReplyWithTools
    \/ ExecuteNextToolCall
    \/ IssueFollowUp
    \/ FollowUpReplied
    \/ FollowUpRequestFaults
    \/ Return

\* Each model request eventually returns a reply or faults, each tool
\* execution (with its retrieval and telemetry calls) eventually returns, and
\* the statements between them are executed: the coroutine is never abandoned
\* by its caller. Nothing obliges the caller to start a call.
Fairness ==
    /\ WF_vars(ModelReplies \/ ModelRequestFaults)
    /\ WF_vars(ReplyWithoutTools)
    /\ WF_vars(ReplyWithTools)
    /\ WF_vars(ExecuteNextToolCall)
    /\ WF_vars(IssueFollowUp)
    /\ WF_vars(FollowUpReplied \/ FollowUpRequestFaults)

\* The first calls of a process, every step of a call eventually taken.
SpecTermination == Init /\ [][NextTermination]_vars /\ Fairness

\* ------------------------------------------------------ progress display
\* the keys of the three steps of show_onboarding_progress
steps == <<"company_lookup_complete", "compliance_certifications", "data_access_needs">>

ProgressByStepKeyOnly(sessions, session_id) ==
    LET session_data == IF session_id \in DOMAIN sessions THEN sessions[session_id]
                        ELSE EmptyDict
    IN  [tiles |-> [i \in 1..Len(steps) |-> steps[i] \in DOMAIN session_data],
         completed_steps |->
             Cardinality({i \in 1..Len(steps) : steps[i] \in DOMAIN session_data}),
         total |-> Len(steps)]

\* show_onboarding_progress: which tiles are shown complete, and the pair
\* (completed_steps, len(steps)) it returns
show_onboarding_progress(sessions, session_id) ==
    LET session_data == IF session_id \in DOMAIN sessions THEN sessions[session_id]
                        ELSE EmptyDict
    IN  [tiles |-> [i \in 1..Len(steps) |->
                      IF steps[i] = "company_lookup_complete"
                      THEN "company_name" \in DOMAIN session_data
                      ELSE steps[i] \in DOMAIN session_data],
         completed_steps |->
             Cardinality({i \in 1..Len(steps) :
                            \/ steps[i] \in DOMAIN session_data
                            \/ /\ steps[i] = "company_lookup_complete"
                               /\ "company_name" \in DOMAIN session_data}),
         total |-> Len(steps)]

\* ------------------------------------------------ two runners in one process
\* session_id arguments the two runners are constructed with
GivenIds == {None, "s1", "s2"}

\* Invocations of the models of the two runners: none names a session.
RunnerInvocations ==
    { Invocation("saveComplianceCertifications",
                 Arguments([company_name |-> "Acme", certifications |-> "SOC2"])),
      Invocation("saveComplianceCertifications",
                 Arguments([company_name |-> "Beta", certifications |-> "ISO27001"])),
      Invocation("saveDataAccessRequirements",
                 Arguments([company_name |-> "Acme", data_access_needs |-> "PII"])),
      Invocation("lookupCompanyInformation",
                 Arguments([company_name |-> "Acme", country |-> "US"])),
      Invocation("getOnboardingSummary", Arguments(EmptyDict)) }

NoTurn == [by |-> 0, value |-> Invocation("", Arguments(EmptyDict))]

\* the application constructs two runners (app.py, one per browser session)
ConstructRunners ==
    /\ Idle
    /\ store = EmptyDict
    /\ company_rag = NoInstance
    /\ \E id1, id2 \in GivenIds :
        last' = [op |-> "VendorAgentRunner.__init__",
                 given |-> <<id1, id2>>,
                 runners |-> <<VendorAgentRunner(id1, None), VendorAgentRunner(id2, None)>>,
                 by |-> 0, value |-> NoTurn.value, ret |-> <<>>, pre |-> store,
                 before |-> NoTurn]
    /\ UNCHANGED <<store, company_rag, agentVars>>

\* A turn of one of the two runners executes an invocation (line 225); the
\* turns of the runners interleave in any order.
RunnerTurn ==
    /\ pc = "idle"
    /\ last # NoCall
    /\ \E r \in {1, 2}, inv \in RunnerInvocations :
        \E out \in {execute_tool_call(store, company_rag, ToolCall(1, inv),
                         last.runners[r].session_id, last.runners[r].galileo_logger,
                         <<"ok", "ok">>, "docs")} :
            /\ store' = out.store
            /\ company_rag' = InstanceAfter(out, company_rag)
            /\ last' = [op |-> "execute_tool_call", given |-> last.given,
                        runners |-> last.runners, by |-> r, value |-> inv,
                        ret |-> out.ret, pre |-> store,
                        before |-> [by |-> last.by, value |-> last.value]]
    /\ UNCHANGED agentVars

NextRunners ==
    \/ ConstructRunners
    \/ RunnerTurn

\* Two runners of one process, their turns interleaved.
SpecRunners == Init /\ [][NextRunners]_vars

NextRetrieval ==
    \/ CallGetCompanyRagInstance
    \/ CallGetRagResponse
    \/ CallSearch
    \/ ResultConsumed

\* The retrieval client called directly, in any environment.
SpecRetrieval == Init /\ [][NextRetrieval]_vars

Next ==
    \/ ProcessQueryEntry
    \/ ModelReplies
    \/ ModelRequestFaults
    \/ ReplyWithoutTools
    \/ ReplyWithTools
    \/ ExecuteNextToolCall
    \/ IssueFollowUp
    \/ FollowUpReplied
    \/ FollowUpRequestFaults
    \/ Return

\* Turns of the orchestration loop, one process_query call at a time.
Spec == Init /\ [][Next]_vars

NextHistories ==
    \/ ProcessQueryEntryAnyHistory
    \/ ModelRepliesShort
    \/ ModelRequestFaults
    \/ ReplyWithoutTools
    \/ ReplyWithTools
    \/ ExecuteNextToolCall
    \/ IssueFollowUp
    \/ FollowUpReplied
    \/ FollowUpRequestFaults
    \/ Return

\* Turns of the orchestration loop on any history a caller can supply, the
\* first reply carrying at most one invocation.
SpecHistories == Init /\ [][NextHistories]_vars

\* ================================================================== claims
ToolOps == {"lookupCompanyInformation", "saveComplianceCertifications",
            "saveDataAccessRequirements", "getOnboardingSummary"}

\* application_complete of a session, a missing flag counting as false
ApplicationComplete(session_data) ==
    "application_complete" \in DOMAIN session_data
    /\ session_data["application_complete"] = TRUE

\* C1: after any sequence of the four tool operations, on any session ids,
\* every session in the store has application_complete true exactly when
\* company_name, compliance_certifications and data_access_needs are all
\* present in it.
C1_CompleteIffAllFields ==
    \A sid \in DOMAIN store :
        ApplicationComplete(store[sid]) <=> RequiredKeySet \subseteq DOMAIN store[sid]

\* C1 witnesses: a tool operation has just made a session complete.
C1_Witness ==
    /\ last # NoCall
    /\ last.op \in ToolOps
    /\ \E sid \in DOMAIN store :
        /\ ApplicationComplete(store[sid])
        /\ RequiredKeySet \subseteq DOMAIN store[sid]
        /\ ~(sid \in DOMAIN last.pre /\ ApplicationComplete(last.pre[sid]))

\* The first reply of the running call and its invocations.
FirstCalls == response_message.tool_calls

FollowUpIssued == Len(requests) = 2

\* The store the i-th execution of the call started from.
StoreBefore(i) == IF i = 1 THEN store0 ELSE executions[i - 1].post

\* C2: the history sent with the follow-up request is the history of the
\* first request, then the assistant turn carrying the invocations A1..An of
\* the first reply, then exactly n tool-result turns, the i-th with the
\* correlation id of Ai and the result of executing Ai on the store left by
\* the executions before it.
C2_ToolResultsInOrder ==
    FollowUpIssued =>
        LET sent == requests[2]
            base == Len(requests[1])
            n == Len(FirstCalls)
        IN  /\ Len(sent) = base + 1 + n
            /\ SubSeq(sent, 1, base) = requests[1]
            /\ sent[base + 1].role = "assistant"
            /\ Len(sent[base + 1].tool_calls) = n
            /\ \A i \in 1..n :
                /\ sent[base + 1].tool_calls[i].id = FirstCalls[i].id
                /\ sent[base + 1].tool_calls[i].function = FirstCalls[i].function
                /\ sent[base + 1 + i].role = "tool"
                /\ sent[base + 1 + i].tool_call_id = FirstCalls[i].id
                /\ \E rag \in RagChoices(FirstCalls[i]) :
                     sent[base + 1 + i].content =
                         Str(execute_tool_call(StoreBefore(i), executions[i].rag_pre,
                                 FirstCalls[i],
                                 self.session_id, self.galileo_logger, sink, rag).ret)

\* C2 witness: a follow-up request was sent after two different invocations.
C2_Witness ==
    /\ FollowUpIssued
    /\ Len(FirstCalls) = 2
    /\ FirstCalls[1].function # FirstCalls[2].function
    /\ requests[2][Len(requests[2])].content # requests[2][Len(requests[2]) - 1].content

\* The call ended in the outermost except clause.
Faulted ==
    pc = "DONE" /\ (raised # NoExc \/ ret[1] = "Error processing your request: ")

\* tool-result turns of a history
ToolTurnCount(history) ==
    Cardinality({i \in 1..Len(history) : history[i].role = "tool"})

\* C3: a call without a fault issues exactly 2 model requests when the first
\* reply carries invocations and exactly 1 when it carries none; no call
\* issues more than 2; the follow-up request is issued only when every
\* invocation of the first reply has its tool-result turn.
C3_RequestCount ==
    /\ Len(requests) <= 2
    /\ (pc = "DONE" /\ ~Faulted) =>
           Len(requests) = IF FirstCalls # <<>> THEN 2 ELSE 1
    /\ FollowUpIssued =>
           /\ FirstCalls # <<>>
           /\ idx = Len(FirstCalls)
           /\ Len(executions) = Len(FirstCalls)
           /\ ToolTurnCount(requests[2]) = Len(FirstCalls)

\* C3 witness: a call with two invocations ended without a fault.
C3_Witness ==
    /\ pc = "DONE"
    /\ ~Faulted
    /\ Len(FirstCalls) = 2
    /\ Len(requests) = 2

FollowUpCarriesCalls ==
    pc = "DONE" /\ final_message # NoReply /\ final_message.tool_calls # <<>>

\* C4: when the follow-up reply carries invocations, none of them is
\* executed: the store is the one the executions of the first reply left, the
\* working history has no tool-result turn beyond those sent with the
\* follow-up request, and the call returns the follow-up reply's text (the
\* placeholder when that text is empty), not the first reply's.
C4_FollowUpCallsDiscarded ==
    FollowUpCarriesCalls =>
        /\ Len(executions) = Len(FirstCalls)
        /\ store = executions[Len(executions)].post
        /\ messages_to_use = requests[2]
        /\ raised = NoExc
        /\ IF final_message.content.t = "str" /\ final_message.content.v # <<>>
           THEN ret = final_message.content.v
           ELSE ret = <<"No response generated">>
        /\ (response_message.content # final_message.content
                => ret # response_message.content.v)

\* C4 witness: the follow-up reply carried an invocation and a text that
\* differs from the first reply's.
C4_Witness ==
    /\ FollowUpCarriesCalls
    /\ final_message.content = Str(FinalText)
    /\ response_message.content = Str(FirstText)
    /\ ret = FinalText

\* C5 (as claimed): a first reply with n invocations causes exactly n
\* executions of the tool executor, the i-th being of the i-th invocation.
C5_EveryInvocationExecuted ==
    (pc = "DONE" /\ response_message # NoReply /\ FirstCalls # <<>>) =>
        /\ Len(executions) = Len(FirstCalls)
        /\ \A i \in 1..Len(FirstCalls) : executions[i].call = FirstCalls[i]

InitialRequestFaulted == pc = "DONE" /\ response_message = NoReply

FollowUpRequestFaulted == pc = "DONE" /\ FollowUpIssued /\ final_message = NoReply

\* C6: when the initial or the follow-up model request faults, process_query
\* raises nothing and returns "Error processing your request: <message>" with
\* the fault's message; the call ends there: a faulted initial request is the
\* only request and no tool was executed, a faulted follow-up request is the
\* second and last request and only the first reply's invocations were
\* executed.
C6_ModelFaultReturnsText ==
    /\ (InitialRequestFaulted \/ FollowUpRequestFaulted) =>
           /\ raised = NoExc
           /\ \E msg \in ModelFaults : ret = <<"Error processing your request: ", msg>>
    /\ InitialRequestFaulted =>
           /\ Len(requests) = 1
           /\ executions = <<>>
           /\ store = store0
    /\ FollowUpRequestFaulted =>
           /\ Len(executions) = Len(FirstCalls)
           /\ store = executions[Len(executions)].post

\* C6 witness: the follow-up request faulted after a tool was executed.
C6_Witness ==
    /\ FollowUpRequestFaulted
    /\ Len(executions) >= 1
    /\ ret = <<"Error processing your request: ", "Connection error.">>

\* C7 (as claimed): execute_tool_call returns a textual result and does not
\* raise, for every invocation of a reply.
C7_ExecutorNeverRaises ==
    \A i \in 1..Len(executions) : executions[i].exc = NoExc

\* C8 (as claimed): each of the four tool operations returns a string and
\* never raises, whatever its collaborators do.
C8_ToolOpsNeverRaise ==
    (last # NoCall /\ last.op \in ToolOps) => last.exc = NoExc

\* The outcome of the direct call recorded in `last` had every telemetry
\* emission succeeded.
WithHealthySink(call) ==
    IF call.op = "lookupCompanyInformation"
    THEN lookup_company_information(call.pre, call.rag_pre, call.company_name,
             call.value, call.session_id, call.galileo_logger, <<"ok", "ok">>,
             call.rag)
    ELSE IF call.op = "saveComplianceCertifications"
    THEN save_compliance_certifications(call.pre, call.session_id,
             call.company_name, call.value, call.galileo_logger, <<"ok", "ok">>)
    ELSE IF call.op = "saveDataAccessRequirements"
    THEN save_data_access_requirements(call.pre, call.session_id,
             call.company_name, call.value, call.galileo_logger, <<"ok", "ok">>)
    ELSE get_onboarding_summary(call.pre, call.session_id, call.galileo_logger,
             <<"ok", "ok">>)

\* C9 (as claimed): a failed telemetry emission is swallowed: the tool
\* operation returns what it returns when the emission succeeds and leaves the
\* same store.
C9_TelemetryFailureSwallowed ==
    (last # NoCall /\ last.op \in ToolOps) =>
        /\ last.exc = WithHealthySink(last).exc
        /\ last.ret = WithHealthySink(last).ret
        /\ store = WithHealthySink(last).store

\* C10 (as claimed): a process_query call of a runner with session id S
\* leaves every store entry under a key other than S as it was when the call
\* was entered.
C10_OnlyOwnSessionTouched ==
    pc # "idle" =>
        \A k \in (DOMAIN store) \cup (DOMAIN store0) :
            k # self.session_id =>
                /\ k \in DOMAIN store0
                /\ k \in DOMAIN store
                /\ store[k] = store0[k]

\* The direct call recorded in `last` is a call of the tool executor made for
\* a runner (a runner's session id is never empty) with arguments that parse
\* to an object.
ExecutorCallOfRunner ==
    /\ last # NoCall
    /\ last.op = "execute_tool_call"
    /\ last.session_id # ""
    /\ last.value.arguments.kind = "object"

\* the operation of the recorded executor call was entered with arguments
\* that bind to its parameters
OperationEntered ==
    /\ last.value.name \in ToolOps
    /\ ~(\E msg \in {MissingArgument, UnexpectedArgument} :
            last.ret = ExecutorError(last.value.name, msg))

\* C11: every runner has a non-empty session id; when the arguments of an
\* invocation do not contain session_id the executor calls the operation with
\* the runner's session id, so that a save is written to the runner's session;
\* the galileo_logger argument of the operation is the runner's handle
\* whatever the invocation carries: without a runner handle no tool span is
\* recorded, with a healthy runner handle exactly one.
C11_SessionAndHandleInjected ==
    /\ \A r \in Runners : r.session_id # ""
    /\ ExecutorCallOfRunner =>
        LET given == last.value.arguments.obj
            arguments == InjectedArguments(given, last.session_id, last.galileo_logger)
        IN  /\ arguments["galileo_logger"] = last.galileo_logger
            /\ "session_id" \notin DOMAIN given =>
                   /\ "session_id" \in DOMAIN arguments
                   /\ arguments["session_id"] = last.session_id
                   /\ (OperationEntered
                        /\ last.value.name \in {"saveComplianceCertifications",
                                                "saveDataAccessRequirements"}) =>
                          /\ last.session_id \in DOMAIN store
                          /\ store[last.session_id]["company_name"] = given["company_name"]
                          /\ \A k \in DOMAIN store :
                                k # last.session_id =>
                                    k \in DOMAIN last.pre /\ store[k] = last.pre[k]
            /\ last.galileo_logger = None => last.spans = 0
            /\ (last.galileo_logger # None /\ last.tel = <<"ok", "ok">>
                 /\ OperationEntered) => last.spans = 1

\* C11 witness: a save without session_id, carrying nothing of the runner,
\* created the runner's session.
C11_Witness ==
    /\ ExecutorCallOfRunner
    /\ last.value.name = "saveComplianceCertifications"
    /\ "session_id" \notin DOMAIN last.value.arguments.obj
    /\ last.session_id \notin DOMAIN last.pre
    /\ last.session_id \in DOMAIN store
    /\ "compliance_certifications" \in DOMAIN store[last.session_id]

\* C12 (as claimed): in every session of the store compliance_certifications
\* is present only if company_lookup_complete is set, and data_access_needs is
\* present only if compliance_certifications is present.
C12_ItemsCollectedInOrder ==
    \A sid \in DOMAIN store :
        /\ "compliance_certifications" \in DOMAIN store[sid] =>
               /\ "company_lookup_complete" \in DOMAIN store[sid]
               /\ store[sid]["company_lookup_complete"] = TRUE
        /\ "data_access_needs" \in DOMAIN store[sid] =>
               "compliance_certifications" \in DOMAIN store[sid]

\* The direct call recorded in `last`, made once more with the same
\* arguments, the same behaviour of the telemetry handle and the same
\* retrieval environment, on the store and the retrieval instance the first
\* call left.
Again(call) ==
    IF call.op = "lookupCompanyInformation"
    THEN lookup_company_information(store, company_rag, call.company_name,
             call.value, call.session_id, call.galileo_logger, call.tel, call.rag)
    ELSE IF call.op = "saveComplianceCertifications"
    THEN save_compliance_certifications(store, call.session_id,
             call.company_name, call.value, call.galileo_logger, call.tel)
    ELSE IF call.op = "saveDataAccessRequirements"
    THEN save_data_access_requirements(store, call.session_id,
             call.company_name, call.value, call.galileo_logger, call.tel)
    ELSE get_onboarding_summary(store, call.session_id, call.galileo_logger,
             call.tel)

\* C13: each of the four tool operations is idempotent: called a second time
\* right after the first with identical arguments (and collaborators that
\* behave as they did the first time), it leaves the store as the first call
\* left it and returns (or raises) what the first call did.
C13_Idempotent ==
    (last # NoCall /\ last.op \in ToolOps) =>
        /\ Again(last).store = store
        /\ Again(last).ret = last.ret
        /\ Again(last).exc = last.exc

\* C13 witness: a save changed the store and its repetition changes nothing.
C13_Witness ==
    /\ last # NoCall
    /\ last.op = "saveComplianceCertifications"
    /\ last.session_id \in DOMAIN last.pre
    /\ store # last.pre
    /\ last.exc = NoExc
    /\ Again(last).store = store
    /\ Again(last).ret = last.ret

\* The three items in their fixed order, with the label each has when pending.
ItemOrder ==
    <<[key |-> "company_name", label |-> "Company information"],
      [key |-> "compliance_certifications", label |-> "Compliance certifications"],
      [key |-> "data_access_needs", label |-> "Data access requirements"]>>

\* labels of the items absent from a session, in the fixed order
AbsentLabels(session_data) ==
    LET absent == SelectSeq(ItemOrder, LAMBDA item : item.key \notin DOMAIN session_data)
    IN  [i \in 1..Len(absent) |-> absent[i].label]

\* the text is a summary of the session: it reports k/3, and then either the
\* completion banner (k = 3) or the pending list of exactly the absent items
SummaryReports(text, session_data) ==
    LET k == Cardinality({key \in {"company_name", "compliance_certifications",
                                   "data_access_needs"} : key \in DOMAIN session_data})
        n == Len(text)
    IN  /\ \E i \in 1..n :
            /\ i + 4 <= n
            /\ SubSeq(text, i, i + 4) =
                   <<"\n**Application Status:** ", ToString(k), "/", "3",
                     " sections completed\n">>
            /\ SubSeq(text, i + 5, n) =
                   IF k = 3
                   THEN <<"\n(check) **Application Complete** - All required information has been collected.">>
                   ELSE <<"\n(hourglass) **Pending:** ">>
                        \o Join(AbsentLabels(session_data), ", ")
        /\ k = 2 => Len(AbsentLabels(session_data)) = 1

\* a session without the given fields
SessionWithout(session_data, dropped) ==
    [key \in (DOMAIN session_data) \ dropped |-> session_data[key]]

\* the direct call recorded in `last` is a summary of an existing session
\* whose telemetry span was emitted without a fault
SummaryOfSession ==
    /\ last # NoCall
    /\ last.op = "getOnboardingSummary"
    /\ last.session_id \in DOMAIN last.pre
    /\ ~LogToGalileoRaises(last.galileo_logger, last.tel, 1)

\* C14: for a session with any subset of company_name,
\* compliance_certifications and data_access_needs, getOnboardingSummary
\* reports k/3 with k the number of fields present, shows the completion
\* banner iff k = 3 and otherwise lists as pending exactly the absent fields in
\* the order company information, compliance certifications, data access
\* requirements; with two fields present exactly one item is listed. Checked
\* for the session a summary was asked of, and for that session with any
\* subset of the three fields taken away.
C14_SummaryCompleteness ==
    SummaryOfSession =>
        /\ SummaryReports(last.ret, last.pre[last.session_id])
        /\ \A dropped \in SUBSET {"company_name", "compliance_certifications",
                                   "data_access_needs"} :
              LET session_data == SessionWithout(last.pre[last.session_id], dropped)
              IN  SummaryReports(
                      get_onboarding_summary(
                          DictSet(last.pre, last.session_id, session_data),
                          last.session_id, None, <<"ok", "ok">>).ret,
                      session_data)

\* C14 witness: a summary of a session with two fields lists the third.
C14_Witness ==
    /\ SummaryOfSession
    /\ {"company_name", "compliance_certifications"} \subseteq DOMAIN last.pre[last.session_id]
    /\ "data_access_needs" \notin DOMAIN last.pre[last.session_id]
    /\ SubSeq(last.ret, Len(last.ret) - 1, Len(last.ret)) =
           <<"\n(hourglass) **Pending:** ", "Data access requirements">>

\* the direct call recorded in `last` is a summary asked of a session id
\* that has no entry, and its telemetry span was emitted without a fault
SummaryOfUnknownSession ==
    /\ last # NoCall
    /\ last.op = "getOnboardingSummary"
    /\ last.session_id \notin DOMAIN last.pre
    /\ ~LogToGalileoRaises(last.galileo_logger, last.tel, 1)

\* C15: getOnboardingSummary on a session id without an entry returns
\* exactly "No application data found. Please start the vendor application
\* process.", raises nothing and creates no entry: the id is still absent and
\* the store is as it was.
C15_UnknownSessionSummary ==
    SummaryOfUnknownSession =>
        /\ last.ret = <<"No application data found. Please start the vendor application process.">>
        /\ last.exc = NoExc
        /\ last.session_id \notin DOMAIN store
        /\ store = last.pre

\* C15 witness: the summary was asked of an unknown id while another session
\* exists.
C15_Witness ==
    /\ SummaryOfUnknownSession
    /\ last.pre # EmptyDict
    /\ last.exc = NoExc
    /\ last.session_id \notin DOMAIN store

\* The direct call recorded in `last` is a lookup for a session (a non-empty
\* id) that had no entry, and the lookup returned what the search gave it.
LookupOfNewSession ==
    /\ last # NoCall
    /\ last.op = "lookupCompanyInformation"
    /\ last.session_id # ""
    /\ last.session_id \notin DOMAIN last.pre
    /\ last.exc = NoExc
    /\ last.ret[1] # "Error looking up company information: "

\* C16: a lookup for a session S without an entry leaves S with company_name
\* the name looked up, company_lookup_complete true and application_complete
\* not true; the summary of S asked next lists the company name, the status
\* "1/3 sections completed" and the pending items "Compliance certifications,
\* Data access requirements" in that order.
C16_LookupThenSummary ==
    LookupOfNewSession =>
        /\ last.session_id \in DOMAIN store
        /\ "company_name" \in DOMAIN store[last.session_id]
        /\ store[last.session_id]["company_name"] = last.company_name
        /\ "company_lookup_complete" \in DOMAIN store[last.session_id]
        /\ store[last.session_id]["company_lookup_complete"] = TRUE
        /\ ~ApplicationComplete(store[last.session_id])
        /\ get_onboarding_summary(store, last.session_id, None, <<"ok", "ok">>).ret =
              <<"(clipboard) VENDOR APPLICATION SUMMARY\n\n",
                "**Company:** ", last.company_name, "\n",
                "\n**Application Status:** ", "1", "/", "3", " sections completed\n",
                "\n(hourglass) **Pending:** ",
                "Compliance certifications", ", ", "Data access requirements">>
        /\ get_onboarding_summary(store, last.session_id, None, <<"ok", "ok">>).store = store

\* C16 witness: the lookup found documents for a new session.
C16_Witness ==
    /\ LookupOfNewSession
    /\ last.ret = <<RagContext, "\n\n", RiskContext>>
    /\ last.session_id \in DOMAIN store
    /\ DOMAIN store[last.session_id] = {"company_name", "company_lookup_complete"}

\* the i-th execution of the running call was of an invocation whose name is
\* not registered (and whose arguments parse to an object)
UnknownToolExecuted(i) ==
    /\ i \in 1..Len(executions)
    /\ executions[i].call.function.name \notin ToolOps
    /\ executions[i].call.function.arguments.kind = "object"

\* C17: an invocation whose name is none of the four registered names gives
\* the result "Unknown tool: <name>" from the executor, raises nothing and
\* leaves the store unchanged; process_query appends its tool-result turn and
\* goes on: the call does not end at that invocation unless it was the last
\* one and the follow-up request has been issued.
C17_UnknownToolIsTextual ==
    \A i \in 1..Len(executions) :
        UnknownToolExecuted(i) =>
            /\ executions[i].ret = <<"Unknown tool: ", executions[i].call.function.name>>
            /\ executions[i].exc = NoExc
            /\ executions[i].post = executions[i].pre
            /\ idx >= i
            /\ \E j \in 1..Len(messages_to_use) :
                  /\ messages_to_use[j].role = "tool"
                  /\ messages_to_use[j].tool_call_id = executions[i].call.id
                  /\ messages_to_use[j].content = Str(executions[i].ret)
            /\ (pc = "DONE" /\ Len(executions) = i) =>
                  /\ i = Len(FirstCalls)
                  /\ FollowUpIssued

\* C17 witness: an unknown tool came first, the next invocation was executed
\* and changed the store, and the call ended with the follow-up reply.
C17_Witness ==
    /\ pc = "DONE"
    /\ ~Faulted
    /\ Len(executions) = 2
    /\ UnknownToolExecuted(1)
    /\ executions[2].post # executions[2].pre
    /\ FollowUpIssued
    /\ final_message # NoReply

\* the direct call recorded in `last` is a call of the retrieval client
RetrievalCall ==
    last # NoCall /\ last.op \in {"get_rag_response", "search"}

\* C18: the retrieval client never raises, whatever the embedding backend,
\* the vector index, the initialisation of the clients or the telemetry handle
\* do: get_rag_response returns None or a RagResponse with at least one
\* document, and search returns a string.
C18_RetrievalNeverRaises ==
    RetrievalCall =>
        /\ last.exc = NoExc
        /\ last.op = "get_rag_response" =>
               \/ last.ret = NoResult
               \/ last.ret.t = "RagResponse" /\ last.ret.documents # <<>>
        /\ last.op = "search" =>
               /\ last.ret # <<>>
               /\ \A i \in 1..Len(last.ret) : last.ret[i] \in STRING

\* C18 witness: the embedding request faulted and the handle raised on the
\* error span; None was returned.
C18_Witness ==
    /\ RetrievalCall
    /\ last.op = "get_rag_response"
    /\ last.rag = "embed_fault"
    /\ last.galileo_logger # None
    /\ last.rtel = "raise"
    /\ Len(last.spans) = 1
    /\ last.ret = NoResult
    /\ last.exc = NoExc

\* the index was queried by the recorded call and returned zero matches
ZeroMatches ==
    /\ RetrievalCall
    /\ last.rag = "empty"
    /\ company_rag.initialized

\* C19: when the index returns zero matches, search returns the
\* nothing-found text with the query in it (never an empty context), and the
\* call emits one retrieval telemetry record, with document count 0 and no
\* error tag, to the handle it was given (without a handle there is nothing to
\* emit to).
C19_EmptyPathObservable ==
    ZeroMatches =>
        /\ last.op = "search" =>
               /\ last.ret = <<"No relevant information found for: ">> \o last.query
               /\ last.query # <<>>
        /\ last.op = "get_rag_response" => last.ret = NoResult
        /\ last.galileo_logger = None => last.spans = <<>>
        /\ last.galileo_logger # None =>
               /\ Len(last.spans) = 1
               /\ last.spans[1].span.name = "RAG Retriever"
               /\ last.spans[1].span.input = last.query
               /\ last.spans[1].span.output = <<>>
               /\ last.spans[1].span.metadata["document_count"] = "0"
               /\ "error" \notin DOMAIN last.spans[1].span.metadata

\* C19 witness: a search with a handle met an index without matches.
C19_Witness ==
    /\ ZeroMatches
    /\ last.op = "search"
    /\ last.galileo_logger # None
    /\ last.rtel = "ok"
    /\ Len(last.spans) = 1
    /\ last.spans[1].delivered
    /\ last.ret[1] = "No relevant information found for: "

\* C20 (as claimed): every get_rag_response call that returns the empty
\* signal has emitted a retrieval telemetry record to the handle it was given,
\* and the record carries the fault when a backend faulted (embedding request,
\* index query, initialisation of the backend clients).
C20_EmptySignalIsRecorded ==
    (RetrievalCall /\ last.op = "get_rag_response" /\ last.galileo_logger # None
     /\ last.ret = NoResult) =>
        /\ Len(last.spans) = 1
        /\ last.rag \in {"embed_fault", "query_fault", "init_fault"} =>
               "error" \in DOMAIN last.spans[1].span.metadata

\* the reply whose text process_query surfaces: the follow-up reply when there
\* is one, else the first reply
SurfacedReply == IF final_message # NoReply THEN final_message ELSE response_message

\* C21: process_query never returns null or an empty string and raises
\* nothing: on every path the returned value is a non-empty text; after a
\* fault it is the error text, otherwise it is the text of the surfaced reply
\* when that text is non-empty and the placeholder "No response generated"
\* when it is empty or absent.
C21_NeverEmptyAnswer ==
    pc = "DONE" =>
        /\ raised = NoExc
        /\ ret # <<>>
        /\ \A i \in 1..Len(ret) : ret[i] \in STRING /\ ret[i] # ""
        /\ \/ Faulted
           \/ /\ SurfacedReply # NoReply
              /\ IF SurfacedReply.content.t = "str" /\ SurfacedReply.content.v # <<>>
                 THEN ret = SurfacedReply.content.v /\ ret # <<"No response generated">>
                 ELSE ret = <<"No response generated">>

\* C21 witness: the follow-up reply had no text and the placeholder was
\* returned.
C21_Witness ==
    /\ pc = "DONE"
    /\ final_message # NoReply
    /\ final_message.content = PyNone
    /\ ret = <<"No response generated">>

\* C22: session data only grows: in every step of any sequence of tool
\* operations a session id present in the store stays present, every field
\* present in a session stays present, and application_complete stays true
\* once it is true.
C22_SessionOnlyGrows ==
    [][\A sid \in DOMAIN store :
          /\ sid \in DOMAIN store'
          /\ \A k \in DOMAIN store[sid] : k \in DOMAIN store'[sid]
          /\ ApplicationComplete(store[sid]) => ApplicationComplete(store'[sid])]_vars

\* C22 witness: a tool operation wrote to a complete session that already
\* held the field, and the session is still complete.
C22_Witness ==
    /\ last # NoCall
    /\ last.op = "saveComplianceCertifications"
    /\ last.session_id \in DOMAIN last.pre
    /\ ApplicationComplete(last.pre[last.session_id])
    /\ last.pre[last.session_id]["company_name"] # last.company_name
    /\ store # last.pre
    /\ DOMAIN store[last.session_id] = DOMAIN last.pre[last.session_id]
    /\ ApplicationComplete(store[last.session_id])

\* the application was started, and perhaps ran tools, in an environment that
\* lacks a required setting
StartedWithMissingSetting ==
    /\ last # NoCall
    /\ last.environ # {"OPENAI_API_KEY", "PINECONE_API_KEY", "PINECONE_INDEX_NAME"}

\* C23 (as claimed): when the model API key, the vector-index API key or the
\* index name is missing, construction fails, and no tool operation is run by
\* a turn.
C23_MissingSettingIsFatal ==
    StartedWithMissingSetting =>
        /\ last.op = "VendorAgentRunner.__init__"
        /\ last.exc # NoExc

\* system turns of a history
SystemTurnCount(history) ==
    Cardinality({i \in 1..Len(history) : history[i].role = "system"})

\* C24 (as claimed): every model request of a call, initial and follow-up,
\* has the runner's system instructions as its first turn and exactly one
\* system turn, whatever list the caller supplied.
C24_ExactlyOneSystemTurn ==
    \A r \in 1..Len(requests) :
        /\ requests[r][1] = [role |-> "system", content |-> Str(self.system_prompt)]
        /\ SystemTurnCount(requests[r]) = 1

\* the backend requests of a lookup started on the given retrieval instance
LookupBackendRequests(instance, rag) ==
    LET rag_instance == GetCompanyRagInstance(instance, rag)
    IN  IF rag_instance.exc # NoExc THEN <<>>
        ELSE BackendRequests(rag_instance.instance, rag)

Occurrences(seq, x) == Cardinality({i \in 1..Len(seq) : seq[i] = x})

\* C25: nothing is retried. A call issues at most two model requests, the
\* second being the follow-up with a longer history, never a repetition of the
\* first; a call whose initial request faulted issued that one request only,
\* and one whose follow-up request faulted issued two. A lookup executed by the
\* call sends at most one embedding request and at most one index query,
\* whatever the backends do.
C25_NoRetry ==
    /\ Len(requests) <= 2
    /\ \A i, j \in 1..Len(requests) : i < j => Len(requests[i]) < Len(requests[j])
    /\ InitialRequestFaulted => Len(requests) = 1
    /\ FollowUpRequestFaulted => Len(requests) = 2
    /\ \A i \in 1..Len(executions) :
         executions[i].call.function.name = "lookupCompanyInformation" =>
             \A rag \in RagOutcomes :
                 /\ Occurrences(LookupBackendRequests(executions[i].rag_pre, rag),
                                "embedding") <= 1
                 /\ Occurrences(LookupBackendRequests(executions[i].rag_pre, rag),
                                "query") <= 1

\* C25 witness: the follow-up request of a call that executed a lookup
\* faulted, and the call ended with two requests issued; the lookup had a
\* backend whose index query raises.
C25_Witness ==
    /\ FollowUpRequestFaulted
    /\ Len(requests) = 2
    /\ \E i \in 1..Len(executions) :
         /\ executions[i].call.function.name = "lookupCompanyInformation"
         /\ LookupBackendRequests(executions[i].rag_pre, "query_fault")
                = <<"embedding", "query">>

\* C26 (as claimed): with a telemetry handle present that records what it is
\* given, every invocation the executor dispatches (its arguments parse to an
\* object) records exactly one tool span, whether the name is registered or
\* not and whether the arguments fit the parameters or not.
C26_OneToolSpanPerInvocation ==
    (/\ last # NoCall
     /\ last.op = "execute_tool_call"
     /\ last.galileo_logger # None
     /\ last.tel = <<"ok", "ok">>
     /\ last.value.arguments.kind = "object")
        => last.spans = 1

\* the recorded call is a summary, made directly or through the executor
SummaryCall ==
    /\ last # NoCall
    /\ \/ last.op = "getOnboardingSummary"
       \/ /\ last.op = "execute_tool_call"
          /\ last.value.name = "getOnboardingSummary"

\* C27: getOnboardingSummary is a pure read: the store after the call equals
\* the store before it, for a session that is known and for one that is not,
\* whatever the telemetry handle does.
C27_SummaryIsPureRead ==
    SummaryCall => store = last.pre

\* C27 witness: the summary of a session holding all three items, and so the
\* completion mark the summary assigns again, was produced and the store is
\* the same.
C27_Witness ==
    /\ SummaryCall
    /\ last.op = "getOnboardingSummary"
    /\ last.session_id \in DOMAIN last.pre
    /\ RequiredKeySet \subseteq DOMAIN last.pre[last.session_id]
    /\ last.exc = NoExc
    /\ store = last.pre

\* the first reply of the running call has arrived and carries no invocations
FirstReplyHasNoCalls ==
    /\ pc \in {"MODEL_RESPONDED", "DONE"}
    /\ response_message # NoReply
    /\ response_message.tool_calls = <<>>

\* C28: during a process_query call the store changes only while a tool
\* operation executes: as long as the call has executed no invocation the
\* store is the one the call started with, and a call whose first reply has no
\* invocations, or whose initial request faulted, executes none.
C28_StoreChangesOnlyInTools ==
    pc # "idle" =>
        /\ executions = <<>> => store = store0
        /\ (FirstReplyHasNoCalls \/ InitialRequestFaulted) =>
               executions = <<>> /\ store = store0

\* C28 witness: a call on a store that already holds a session ended with a
\* first reply without invocations; the store is as it was.
C28_Witness ==
    /\ pc = "DONE"
    /\ FirstReplyHasNoCalls
    /\ store0 # EmptyDict
    /\ store = store0

\* the recorded call is one of the two save operations, called directly
SaveCall ==
    /\ last # NoCall
    /\ last.op \in {"saveComplianceCertifications", "saveDataAccessRequirements"}

\* the field a save operation writes its item to, and the field of the other
ItemKey(op) ==
    IF op = "saveComplianceCertifications" THEN "compliance_certifications"
    ELSE "data_access_needs"

OtherItemKey(op) ==
    IF op = "saveComplianceCertifications" THEN "data_access_needs"
    ELSE "compliance_certifications"

\* a value of the item other than the ones saved so far
LaterItem(op) ==
    IF op = "saveComplianceCertifications" THEN "ISO27001" ELSE "read-only"

\* the save operation `op` applied to the store `sessions`
Save(op, sessions, session_id, company_name, item, galileo_logger, tel) ==
    IF op = "saveComplianceCertifications"
    THEN save_compliance_certifications(sessions, session_id, company_name, item,
                                        galileo_logger, tel)
    ELSE save_data_access_requirements(sessions, session_id, company_name, item,
                                       galileo_logger, tel)

\* post is pre with company_name and the item of `op` set in session
\* session_id, the other item and the lookup flag of that session as they
\* were, and every other session as it was
ShallowMerge(pre, post, op, session_id, company_name, item) ==
    /\ session_id \in DOMAIN post
    /\ "company_name" \in DOMAIN post[session_id]
    /\ post[session_id]["company_name"] = company_name
    /\ ItemKey(op) \in DOMAIN post[session_id]
    /\ post[session_id][ItemKey(op)] = item
    /\ \A k \in {OtherItemKey(op), "company_lookup_complete"} :
         IF session_id \in DOMAIN pre /\ k \in DOMAIN pre[session_id]
         THEN k \in DOMAIN post[session_id]
              /\ post[session_id][k] = pre[session_id][k]
         ELSE k \notin DOMAIN post[session_id]
    /\ DOMAIN post = DOMAIN pre \cup {session_id}
    /\ \A t \in DOMAIN pre : t # session_id => post[t] = pre[t]

\* C29: a save is a shallow merge into its own session. The store after
\* saveComplianceCertifications (saveDataAccessRequirements) for session S has
\* company_name and compliance_certifications (data_access_needs) of S set to
\* the values given, whatever they were before; data_access_needs
\* (compliance_certifications) and company_lookup_complete of S, and every
\* other session, are as before. The same holds for a further save on the
\* store the call left, with any company name and a new value of the item.
C29_SaveIsShallowMerge ==
    SaveCall =>
        /\ ShallowMerge(last.pre, store, last.op, last.session_id,
                        last.company_name, last.value)
        /\ \A company_name \in Names, item \in {last.value, LaterItem(last.op)} :
             ShallowMerge(store,
                 Save(last.op, store, last.session_id, company_name, item,
                      last.galileo_logger, last.tel).store,
                 last.op, last.session_id, company_name, item)

\* C29 witness: certifications were saved under a new company name for a
\* session that held another name, data access needs and the lookup flag,
\* while another session existed.
C29_Witness ==
    /\ SaveCall
    /\ last.op = "saveComplianceCertifications"
    /\ last.session_id \in DOMAIN last.pre
    /\ {"company_name", "data_access_needs", "company_lookup_complete",
        "compliance_certifications"} \subseteq DOMAIN last.pre[last.session_id]
    /\ last.pre[last.session_id]["company_name"] # last.company_name
    /\ store[last.session_id]["company_name"] = last.company_name
    /\ DOMAIN last.pre # {last.session_id}

\* the recorded call is a lookup that faulted before its result was obtained:
\* the retrieval client could not be obtained
LookupFaultedEarly ==
    /\ last # NoCall
    /\ last.op = "lookupCompanyInformation"
    /\ GetCompanyRagInstance(last.rag_pre, last.rag).exc # NoExc

\* C30: a lookup that faults before its result is obtained leaves the store
\* as it was (no session created, company_name and company_lookup_complete
\* not set) and, when the emission of its error span does not itself fault,
\* returns "Error looking up company information: <message>".
C30_LookupMarksOnlyOnSuccess ==
    LookupFaultedEarly =>
        /\ store = last.pre
        /\ ~LogToGalileoRaises(last.galileo_logger, last.tel, 1) =>
               /\ last.exc = NoExc
               /\ last.ret = <<LookupErrorPrefix,
                               GetCompanyRagInstance(last.rag_pre, last.rag).exc>>

\* C30 witness: a lookup for a session the store does not hold could not
\* obtain the retrieval client; the error text came back and the session was
\* not created.
C30_Witness ==
    /\ LookupFaultedEarly
    /\ last.session_id = "s1"
    /\ "s1" \notin DOMAIN last.pre
    /\ "s1" \notin DOMAIN store
    /\ last.ret = <<LookupErrorPrefix, RagFault>>

\* the search the recorded lookup made
SearchOfLookup ==
    search(GetCompanyRagInstance(last.rag_pre, last.rag).instance,
           SearchQuery(last.company_name, last.value), last.galileo_logger,
           last.rag, RetrieverTel(last.tel))

\* The recorded call is a lookup with a non-empty session id whose retrieval
\* yielded nothing: zero matches, a backend fault inside the retrieval client,
\* or clients that failed to initialise.
LookupFoundNothing ==
    /\ last # NoCall
    /\ last.op = "lookupCompanyInformation"
    /\ last.session_id # ""
    /\ last.rag \in {"empty", "query_fault", "embed_fault", "init_fault"}
    /\ GetCompanyRagInstance(last.rag_pre, last.rag).exc = NoExc
    /\ SearchOfLookup.ret = NothingFound(SearchQuery(last.company_name, last.value))

\* C31: when retrieval yields nothing, a lookup with a non-empty session id
\* still sets company_name and company_lookup_complete on the session and
\* (its tool span emitted without a fault) returns the nothing-found text; the
\* summary asked next shows the company and counts it as a completed section.
C31_EmptyRetrievalStillMarks ==
    LookupFoundNothing =>
        /\ last.session_id \in DOMAIN store
        /\ "company_name" \in DOMAIN store[last.session_id]
        /\ store[last.session_id]["company_name"] = last.company_name
        /\ "company_lookup_complete" \in DOMAIN store[last.session_id]
        /\ store[last.session_id]["company_lookup_complete"] = TRUE
        /\ ~LogToGalileoRaises(last.galileo_logger, last.tel, 1) =>
               /\ last.exc = NoExc
               /\ last.ret = NothingFound(SearchQuery(last.company_name, last.value))
        /\ CompletedItems(store[last.session_id]) >= 1
        /\ SubSeq(get_onboarding_summary(store, last.session_id, None,
                                         <<"ok", "ok">>).ret, 2, 4)
              = <<"**Company:** ", last.company_name, "\n">>
        /\ "Company information" \notin
              {Remaining(store[last.session_id])[i] :
                   i \in 1..Len(Remaining(store[last.session_id]))}

\* C31 witness: the clients of the retrieval instance failed to initialise
\* during a lookup for a session without an entry; the nothing-found text came
\* back and the session holds the company name and the lookup flag.
C31_Witness ==
    /\ LookupFoundNothing
    /\ last.rag = "init_fault"
    /\ ~company_rag.initialized
    /\ last.session_id \notin DOMAIN last.pre
    /\ last.ret = NothingFound(SearchQuery(last.company_name, last.value))
    /\ DOMAIN store[last.session_id] = {"company_name", "company_lookup_complete"}

\* C32: in every reachable store, a session that has company_lookup_complete
\* has company_name too, and the flag is true.
C32_LookupFlagImpliesName ==
    \A sid \in DOMAIN store :
        "company_lookup_complete" \in DOMAIN store[sid] =>
            /\ store[sid]["company_lookup_complete"] = TRUE
            /\ "company_name" \in DOMAIN store[sid]

\* C32 witness (the converse does not hold): a session has the lookup flag and
\* the company name, while another has company_name and application_complete
\* true without the flag, the two save operations alone having run for it.
C32_Witness ==
    /\ \E sid \in DOMAIN store :
         /\ "company_lookup_complete" \in DOMAIN store[sid]
         /\ "company_name" \in DOMAIN store[sid]
    /\ \E sid \in DOMAIN store :
         /\ "company_name" \in DOMAIN store[sid]
         /\ "company_lookup_complete" \notin DOMAIN store[sid]
         /\ ApplicationComplete(store[sid])

\* C33: nothing is rolled back when a turn fails. If the follow-up request
\* faults after the invocations of the first reply were executed,
\* process_query returns the "Error processing your request" text and the
\* store is the one the last execution left, each execution having started
\* from the store its predecessor left.
C33_NoRollbackOnFailure ==
    FollowUpRequestFaulted =>
        /\ raised = NoExc
        /\ \E msg \in ModelFaults : ret = ProcessingError(msg)
        /\ Len(executions) = Len(response_message.tool_calls)
        /\ \A i \in 1..Len(executions) : executions[i].pre = StoreBefore(i)
        /\ store = executions[Len(executions)].post

\* C33 witness: the follow-up request faulted after a save had changed the
\* store; the error text was returned and the store differs from the one the
\* call started with.
C33_Witness ==
    /\ FollowUpRequestFaulted
    /\ ret[1] = "Error processing your request: "
    /\ store # store0
    /\ \E i \in 1..Len(executions) :
         /\ executions[i].call.function.name = "saveComplianceCertifications"
         /\ executions[i].post # executions[i].pre

\* a step of a running call, from its first request to its last statement
StepInsideCall == pc # "idle" /\ pc' # "idle"

\* C34: process_query never modifies the list the caller supplied: no step of
\* a call, on the path without tools, with tools or to a fault, changes its
\* length or its elements; the assistant turn and the tool-result turns go to
\* the working copy only, which still begins with the system turn and the
\* converted turns of the caller.
C34_CallerListUntouched ==
    [][StepInsideCall =>
          /\ conversation_messages' = conversation_messages
          /\ Len(messages_to_use') >= Len(messages_to_use)
          /\ SubSeq(messages_to_use', 2, Len(ConvertMessages(conversation_messages)) + 1)
                = ConvertMessages(conversation_messages)]_vars

\* C34 witness: a call on a caller's list of three messages executed an
\* invocation and ended; the working copy holds the assistant turn and a
\* tool-result turn, the caller's list its three messages.
C34_Witness ==
    /\ pc = "DONE"
    /\ executions # <<>>
    /\ Len(conversation_messages) = 3
    /\ conversation_messages \in CallerHistories
    /\ Len(messages_to_use) >= 6
    /\ ToolTurnCount(messages_to_use) >= 1

\* The recorded call is a save dispatched by the executor for a runner with a
\* non-empty session id, the invocation supplying session_id "" and the other
\* parameters of the operation.
SaveWithExplicitEmptyId ==
    /\ last # NoCall
    /\ last.op = "execute_tool_call"
    /\ last.session_id # ""
    /\ last.value.name \in {"saveComplianceCertifications", "saveDataAccessRequirements"}
    /\ last.value.arguments.kind = "object"
    /\ DOMAIN last.value.arguments.obj
          = {"session_id", "company_name", ItemKey(last.value.name)}
    /\ last.value.arguments.obj["session_id"] = ""

\* C35: the operations treat an explicitly empty session id differently. A
\* lookup with session_id "" leaves the store unchanged and (no fault of the
\* retrieval client or of the telemetry handle) returns what the search gave;
\* a save with session_id "" creates or updates the session under the empty
\* key; and the executor does not replace an empty session_id the model
\* supplied by the runner's id: the save lands under the empty key and the
\* runner's session is as before.
C35_EmptySessionId ==
    /\ (last # NoCall /\ last.op = "lookupCompanyInformation" /\ last.session_id = "") =>
          /\ store = last.pre
          /\ (/\ GetCompanyRagInstance(last.rag_pre, last.rag).exc = NoExc
              /\ ~LogToGalileoRaises(last.galileo_logger, last.tel, 1)) =>
                 /\ last.exc = NoExc
                 /\ last.ret = SearchOfLookup.ret
    /\ (SaveCall /\ last.session_id = "") =>
          /\ "" \in DOMAIN store
          /\ ItemKey(last.op) \in DOMAIN store[""]
          /\ store[""][ItemKey(last.op)] = last.value
          /\ "company_name" \in DOMAIN store[""]
          /\ store[""]["company_name"] = last.company_name
    /\ SaveWithExplicitEmptyId =>
          /\ "" \in DOMAIN store
          /\ ItemKey(last.value.name) \in DOMAIN store[""]
          /\ store[""][ItemKey(last.value.name)]
                = last.value.arguments.obj[ItemKey(last.value.name)]
          /\ (last.session_id \in DOMAIN store) = (last.session_id \in DOMAIN last.pre)
          /\ last.session_id \in DOMAIN store =>
                 store[last.session_id] = last.pre[last.session_id]

\* C35 witness: the executor of runner "s1" dispatched a save whose
\* invocation carried session_id ""; a session under the empty key was created
\* and no session "s1" exists.
C35_Witness ==
    /\ SaveWithExplicitEmptyId
    /\ last.session_id = "s1"
    /\ "" \notin DOMAIN last.pre
    /\ "" \in DOMAIN store
    /\ "s1" \notin DOMAIN store

\* a turn of one of the two runners has executed an invocation
TurnOfARunner == last # NoCall /\ last.by \in {1, 2}

\* the runner that did not make the recorded turn
OtherRunner == last.runners[3 - last.by]

\* the summary the other runner's model asks for next, without naming a session
SummaryByOtherRunner ==
    execute_tool_call(store, company_rag,
        ToolCall(1, Invocation("getOnboardingSummary", Arguments(EmptyDict))),
        OtherRunner.session_id, OtherRunner.galileo_logger, <<"ok", "ok">>, "docs")

\* the recorded turn executed a save
TurnSaved ==
    last.value.name \in {"saveComplianceCertifications", "saveDataAccessRequirements"}

\* the item the invocation of the recorded turn asked to save
SavedItem ==
    last.value.arguments.obj[IF last.value.name = "saveComplianceCertifications"
                             THEN "certifications" ELSE "data_access_needs"]

\* C36: a runner constructed without a session id has the id "vendor-agent",
\* so two such runners use one session record: what a turn of one saves is
\* in the session the other reads, its summary shows it, and it replaces what
\* the other saved. A turn of a runner whose id differs from the other's
\* (the models naming no session) leaves the other runner's session as it was.
C36_RunnersSharingDefaultId ==
    TurnOfARunner =>
        /\ \A r \in {1, 2} :
              last.given[r] = None => last.runners[r].session_id = "vendor-agent"
        /\ IF last.runners[1].session_id = last.runners[2].session_id
           THEN TurnSaved =>
                  /\ OtherRunner.session_id \in DOMAIN store
                  /\ ItemKey(last.value.name) \in DOMAIN store[OtherRunner.session_id]
                  /\ store[OtherRunner.session_id][ItemKey(last.value.name)] = SavedItem
                  /\ store[OtherRunner.session_id]["company_name"]
                        = last.value.arguments.obj["company_name"]
                  /\ \E i \in 1..Len(SummaryByOtherRunner.ret) :
                        SummaryByOtherRunner.ret[i] = SavedItem
           ELSE /\ (OtherRunner.session_id \in DOMAIN store)
                      = (OtherRunner.session_id \in DOMAIN last.pre)
                /\ OtherRunner.session_id \in DOMAIN store =>
                      store[OtherRunner.session_id] = last.pre[OtherRunner.session_id]

\* C36 witness: both runners were constructed without a session id; runner 1
\* saved certifications for Acme, then runner 2 saved other certifications for
\* Beta, and the one record under "vendor-agent" now holds those of runner 2.
C36_Witness ==
    /\ TurnOfARunner
    /\ last.given = <<None, None>>
    /\ last.before.by = 1
    /\ last.before.value.name = "saveComplianceCertifications"
    /\ last.before.value.arguments.obj["certifications"] = "SOC2"
    /\ last.by = 2
    /\ last.value.name = "saveComplianceCertifications"
    /\ last.pre["vendor-agent"]["compliance_certifications"] = "SOC2"
    /\ last.pre["vendor-agent"]["company_name"] = "Acme"
    /\ store["vendor-agent"]["compliance_certifications"] = "ISO27001"
    /\ store["vendor-agent"]["company_name"] = "Beta"
    /\ DOMAIN store = {"vendor-agent"}

\* session ids the progress display is asked about: those of the direct
\* calls and one no operation was ever called with
DisplayedIds == SessionIds \cup {"s9"}

\* C37: in every reachable store the progress display and the summary agree.
\* For every session id, completed_steps of show_onboarding_progress is the
\* number of company_name, compliance_certifications, data_access_needs
\* present (0 for an unknown session), it is the count the summary text
\* reports, the number of tiles shown complete, and it is 3 exactly when
\* application_complete of the session is true.
C37_ProgressAgreesWithSummary ==
    \A sid \in DisplayedIds :
        LET progress == show_onboarding_progress(store, sid)
        IN  /\ progress.total = total_items
            /\ progress.completed_steps
                  = Cardinality({i \in 1..3 : progress.tiles[i]})
            /\ IF sid \in DOMAIN store
               THEN /\ progress.completed_steps = CompletedItems(store[sid])
                    /\ SubSeq(SummaryText(store[sid]),
                              2 + 3 * CompletedItems(store[sid]),
                              3 + 3 * CompletedItems(store[sid]))
                          = <<"\n**Application Status:** ",
                              ToString(progress.completed_steps)>>
                    /\ (progress.completed_steps = 3) = ApplicationComplete(store[sid])
               ELSE progress.completed_steps = 0

\* C37 witness: a session got its company name and certifications from a save
\* alone, without a lookup; the display shows 2 of 3 steps, the first tile
\* complete, and 0 steps for a session that does not exist.
C37_Witness ==
    /\ "s1" \in DOMAIN store
    /\ DOMAIN store["s1"] \cap {"company_name", "company_lookup_complete",
                                "compliance_certifications", "data_access_needs"}
          = {"company_name", "compliance_certifications"}
    /\ show_onboarding_progress(store, "s1").completed_steps = 2
    /\ show_onboarding_progress(store, "s1").tiles = <<TRUE, TRUE, FALSE>>
    /\ show_onboarding_progress(store, "s9").completed_steps = 0
    /\ last # NoCall
    /\ last.op = "saveComplianceCertifications"

\* C38: every process_query call terminates with a returned text when every
\* model, retrieval and telemetry call it issues returns or faults: a call
\* that has issued its first request reaches DONE with a non-empty text and
\* no exception, and at no point has it issued more than 2 model requests or
\* executed more invocations than the first reply carries.
C38_CallTerminates ==
    /\ [](pc # "idle" =>
            /\ Len(requests) <= 2
            /\ Len(executions) <= Len(response_message.tool_calls)
            /\ idx <= Len(response_message.tool_calls))
    /\ (pc = "AWAITING_MODEL") ~> (pc = "DONE" /\ raised = NoExc /\ ret # <<>>)

\* C38 witness: a call whose first reply carried two invocations executed
\* both, issued its second request and ended with a text.
C38_Witness ==
    /\ pc = "DONE"
    /\ Len(response_message.tool_calls) = 2
    /\ Len(executions) = 2
    /\ Len(requests) = 2
    /\ raised = NoExc
    /\ ret # <<>>

\* the recorded get_rag_response call found the clients uninitialised and
\* its attempt to initialise them failed
InitialisationFailed ==
    /\ last # NoCall
    /\ last.op = "get_rag_response"
    /\ ~last.rag_pre.initialized
    /\ InitializeBody(last.rag) # NoExc

\* C39: the initialisation state of the retrieval client only moves from
\* uninitialised to initialised (and the instance, once created, stays). A
\* get_rag_response call whose initialisation attempt fails returns the empty
\* signal without a request to the backends and leaves the instance
\* uninitialised, so that the next call attempts it again: it succeeds in an
\* environment where the credentials are configured and fails again where
\* they are not. Once initialised, the instance is never initialised again,
\* whatever the environment has become, and the backends are queried. For
\* the same index name and namespace get_rag_system returns the instance it
\* created, in the state it is in.
C39_InitialisationIsMonotone ==
    /\ [][/\ company_rag.created => company_rag'.created
          /\ company_rag.initialized => company_rag'.initialized]_vars
    /\ [](/\ InitialisationFailed =>
               /\ last.ret = NoResult
               /\ last.exc = NoExc
               /\ last.spans = <<>>
               /\ BackendRequests(last.rag_pre, last.rag) = <<>>
               /\ ~company_rag.initialized
               /\ get_rag_response(company_rag, last.query, None, "docs", "ok")
                      .instance.initialized
               /\ get_rag_response(company_rag, last.query, None, last.rag, "ok")
                      = RagResult(company_rag, NoResult, NoExc, <<>>)
          /\ company_rag.initialized =>
               \A rag \in RagOutcomes :
                   /\ initialize(company_rag, rag) = company_rag
                   /\ BackendRequests(company_rag, rag) # <<>>
          /\ company_rag.created =>
               \A rag \in RagOutcomes :
                   /\ GetCompanyRagInstance(company_rag, rag).instance = company_rag
                   /\ Backend(rag).index_name =>
                          get_rag_system(company_rag, rag)
                            = [instance |-> company_rag, exc |-> NoExc])

\* C39 witness: the instance exists, a get_rag_response call has just failed
\* to initialise it for want of a credential, and it is still uninitialised.
C39_Witness ==
    /\ InitialisationFailed
    /\ last.rag = "init_fault"
    /\ last.rag_pre.created
    /\ company_rag.created
    /\ ~company_rag.initialized
    /\ last.ret = NoResult

====
